---- MODULE Spec2Model ----
(***************************************************************************)
(* HIVE worker daemon (src/worker-daemon.py): the task lifecycle kept in   *)
(* the Redis store (queue list, active list, completed / failed sorted     *)
(* sets, per-task hash, event channel, activity streams) and the agent     *)
(* loop of execute_task (backend calls, tool executions, the               *)
(* conversation), with the backends of backends.py (create_backend and     *)
(* the three send_message variants).                                       *)
(*                                                                         *)
(* Lists are written head first: index 1 is the Redis head (left end),     *)
(* index Len is the tail (right end).                                      *)
(***************************************************************************)
EXTENDS Integers, Sequences, FiniteSets, TLC

(***************************************************************************)
(* Bounds of the model.                                                    *)
(***************************************************************************)
\* Number of payloads the clients push onto the queues in one behaviour.
MaxPayloads == 2
\* Largest value of MAX_ITERATIONS a daemon is configured with.
MaxIterationsCap == 3
\* maxlen of the per-worker and of the global activity stream, scaled down.
LogMaxLen == 2
LogAllMaxLen == 3
\* How many times the store becomes unreachable in one behaviour.
MaxFaults == 1
\* How many times a daemon process dies in one behaviour.
MaxCrashes == 1

\* Worker identities (AGENT_ID).
Workers == {"drone-1", "drone-2"}

VARIABLES
    queue,            \* hive:queue:<agent_id>, a Redis list per worker
    active,           \* hive:active:<agent_id>, a Redis list per worker
    completed,        \* hive:completed, the members of the sorted set
    failed,           \* hive:failed, the members of the sorted set
    taskData,         \* hive:task:<id> field "data": <<>> or <<record>>
    published,        \* messages published on hive:events
    nextId,           \* the clients' payload counter
    daemons,          \* the worker identities a daemon process runs for
    max_iterations,   \* self.max_iterations of each daemon
    pc,               \* where each daemon is in run / execute_task
    task,             \* the task dequeue_task returned to run
    iteration,        \* execute_task: iteration
    messages,         \* execute_task: messages
    final_response,   \* execute_task: final_response
    outcome,          \* what execute_task returned (result) or raised (error)
    calls,            \* per backend call of the current task: what it did
    toolCalls,        \* ids of the tool_use blocks handed to execute_tool
    logs,             \* hive:logs:<agent_id> and hive:logs:all, oldest first
    pushed,           \* per payload id: the kind the clients pushed, or ""
    store,            \* "up", or "down": every Redis command raises RedisError
    faults,           \* how many times the store has gone down
    stranded,         \* ids of the tasks a daemon held when its process died
    env,              \* os.environ and the installation the daemon starts in
    backend,          \* self.backend of each daemon: the variant's name
    reply,            \* what the model side hands to send_message
    normalized,       \* what send_message returned or raised, <<>> before
    files,            \* the workspace: the content of each existing file
    agent_id,         \* Tools.agent_id (AGENT_ID), "" when not set
    tool_use,         \* the tool_use block the for loop is at, <<>> if none
    tool_result,      \* what became of it: <<>>, or the outcome of the call
    commands,         \* the external commands the tools have run
    sigint            \* SIGINT of each daemon process: "none", "pending", "raised"

vars == <<queue, active, completed, failed, taskData, published, nextId,
          daemons, max_iterations, pc, task, iteration, messages,
          final_response, outcome, calls, toolCalls, logs, pushed, store,
          faults, stranded, env, backend, reply, normalized, files,
          agent_id, tool_use, tool_result, commands, sigint>>

storeVars == <<queue, active, completed, failed, taskData, published>>
loopVars  == <<iteration, messages, final_response, calls, toolCalls>>
faultVars == <<store, faults, stranded>>
backendVars == <<env, backend, reply, normalized>>
toolVars == <<files, agent_id, tool_use, tool_result, commands>>

(***************************************************************************)
(* Queue payloads.  A payload is the string a client pushed; json.loads    *)
(* either parses it into a task dict or raises JSONDecodeError.            *)
(***************************************************************************)
PayloadKinds == {"json", "garbage"}
Payload(kind, id) == <<kind, id>>

\* json.loads gone wrong: it accepts whatever it is given
JSONDecodeErrorNever(task_json) == FALSE

\* json.loads(task_json) raises JSONDecodeError
JSONDecodeError(task_json) == task_json[1] # "json"
\* json.loads(task_json) when it parses
JsonLoads(task_json) == [id |-> task_json[2]]

\* None, as returned by dequeue_task
NoTask == [id |-> 0]

(***************************************************************************)
(* Redis list commands, as functions on list values.                       *)
(***************************************************************************)
\* LPUSH key value
LPush(list, value) == <<value>> \o list
\* RPOP key: the list left behind
RPop(list) == IF list = <<>> THEN <<>> ELSE SubSeq(list, 1, Len(list) - 1)
\* The element RPOP / RPOPLPUSH takes
Tail_(list) == list[Len(list)]
\* RPOPLPUSH gone wrong: the element is popped and never pushed
RPopLPushDropsElement(source, destination) ==
    [source |-> RPop(source), destination |-> destination]

\* RPOPLPUSH gone wrong: it takes the head, the element pushed last
RPopLPushTakesNewest(source, destination) ==
    [source |-> Tail(source), destination |-> LPush(destination, Head(source))]

\* RPOPLPUSH source destination, source non-empty: the two lists afterwards
RPopLPush(source, destination) ==
    [source |-> RPop(source), destination |-> LPush(destination, Tail_(source))]

Range(s) == {s[i] : i \in DOMAIN s}

(***************************************************************************)
(* The activity streams written by log_activity.  A stream is the list of  *)
(* its entries, oldest first.                                              *)
(***************************************************************************)
\* The keys of the streams: hive:logs:<agent_id> and hive:logs:all
LogKeys == Workers \cup {"all"}

\* The entry log_activity builds
LogEntry(agent, task_id, event) ==
    [agent |-> agent, task_id |-> task_id, event |-> event]

\* XADD key MAXLEN maxlen entry: the stream afterwards
XAdd(stream, entry, maxlen) ==
    LET longer == Append(stream, entry) IN
    IF Len(longer) > maxlen
    THEN SubSeq(longer, Len(longer) - maxlen + 1, Len(longer))
    ELSE longer

\* log_activity called once per event of events, in order, store reachable
RECURSIVE LogActivity(_, _, _, _)
LogActivity(streams, agent, task_id, events) ==
    IF events = <<>>
    THEN streams
    ELSE LET entry == LogEntry(agent, task_id, Head(events))
             written == [streams EXCEPT
                            ![agent] = XAdd(@, entry, LogMaxLen),
                            !["all"] = XAdd(@, entry, LogAllMaxLen)]
         IN  LogActivity(written, agent, task_id, Tail(events))

(***************************************************************************)
(* backends.py: create_backend and the constructors of the three variants. *)
(* An environment gives each variable create_backend reads (None when it   *)
(* is unset) and what the installation offers the constructors.            *)
(***************************************************************************)
\* Python's None
None == "None"

\* bool(value) of an environment value
Truthy(value) == value \notin {None, ""}

\* os.getenv(name)
Getenv(e, name) == e[name]

Envs ==
    [HIVE_CLAUDE_BACKEND : {None, "api", "cli", "bedrock", "gemini"},
     ANTHROPIC_API_KEY : {None, "", "sk-key"},
     CLAUDE_CODE_USE_BEDROCK : {None, "0", "1"},
     AWS_PROFILE : {None, "dev"},
     AWS_REGION : {None, "eu-west-1"},
     CLAUDE_CODE_OAUTH_TOKEN : {None, "token"},
     claude_cli : {"ok", "missing", "nonzero"},
     anthropic_sdk : BOOLEAN,
     boto3_sdk : BOOLEAN]

\* The environment of a daemon that runs on the managed-cloud variant
BedrockEnv ==
    [HIVE_CLAUDE_BACKEND |-> "bedrock", ANTHROPIC_API_KEY |-> None,
     CLAUDE_CODE_USE_BEDROCK |-> None, AWS_PROFILE |-> None,
     AWS_REGION |-> None, CLAUDE_CODE_OAUTH_TOKEN |-> None,
     claude_cli |-> "missing", anthropic_sdk |-> FALSE, boto3_sdk |-> TRUE]

\* What a constructor or create_backend does: a backend, or an exception
Backend(name) == [kind |-> "backend", name |-> name]
Raises(exception) == [kind |-> exception, name |-> "none"]

\* AnthropicAPIBackend.__init__: ImportError of the SDK -> sys.exit(1)
AnthropicAPIBackend(e) ==
    IF e.anthropic_sdk THEN Backend("api") ELSE Raises("SystemExit")

\* ClaudeCLIBackend.__init__ gone wrong: the return code is not looked at
ClaudeCLIBackendIgnoresReturnCode(e) ==
    IF e.claude_cli # "missing" THEN Backend("cli") ELSE Raises("SystemExit")

\* ClaudeCLIBackend.__init__: "claude --version" must run and return 0
ClaudeCLIBackend(e) ==
    IF e.claude_cli = "ok" THEN Backend("cli") ELSE Raises("SystemExit")

\* BedrockBackend.__init__: ImportError of boto3 -> sys.exit(1)
BedrockBackend(e) ==
    IF e.boto3_sdk THEN Backend("bedrock") ELSE Raises("SystemExit")

\* create_backend gone wrong: the managed-cloud check comes before the key
CreateBackendBedrockFirst(e) ==
    LET explicit_backend == Getenv(e, "HIVE_CLAUDE_BACKEND") IN
    CASE explicit_backend = "api" ->
             IF ~Truthy(Getenv(e, "ANTHROPIC_API_KEY"))
             THEN Raises("RuntimeError")
             ELSE AnthropicAPIBackend(e)
      [] explicit_backend = "cli" -> ClaudeCLIBackend(e)
      [] explicit_backend = "bedrock" -> BedrockBackend(e)
      [] OTHER ->
             IF \/ Getenv(e, "CLAUDE_CODE_USE_BEDROCK") = "1"
                \/ Truthy(Getenv(e, "AWS_PROFILE"))
             THEN BedrockBackend(e)
             ELSE IF Truthy(Getenv(e, "ANTHROPIC_API_KEY"))
                  THEN AnthropicAPIBackend(e)
                  ELSE ClaudeCLIBackend(e)

\* create_backend
CreateBackend(e) ==
    LET explicit_backend == Getenv(e, "HIVE_CLAUDE_BACKEND") IN
    CASE explicit_backend = "api" ->
             IF ~Truthy(Getenv(e, "ANTHROPIC_API_KEY"))
             THEN Raises("RuntimeError")
             ELSE AnthropicAPIBackend(e)
      [] explicit_backend = "cli" -> ClaudeCLIBackend(e)
      [] explicit_backend = "bedrock" -> BedrockBackend(e)
      [] OTHER ->
             IF Truthy(Getenv(e, "ANTHROPIC_API_KEY"))
             THEN AnthropicAPIBackend(e)
             ELSE IF \/ Getenv(e, "CLAUDE_CODE_USE_BEDROCK") = "1"
                     \/ Truthy(Getenv(e, "AWS_PROFILE"))
                  THEN BedrockBackend(e)
                  ELSE IF Truthy(Getenv(e, "CLAUDE_CODE_OAUTH_TOKEN")) \/ TRUE
                       THEN ClaudeCLIBackend(e)
                       ELSE Raises("RuntimeError")

(***************************************************************************)
(* Initial state: empty store, daemons at the top of run's poll loop.      *)
(***************************************************************************)
InitStore ==
    /\ queue = [w \in Workers |-> <<>>]
    /\ active = [w \in Workers |-> <<>>]
    /\ completed = {}
    /\ failed = {}
    /\ taskData = [i \in 1..MaxPayloads |-> <<>>]
    /\ published = {}
    /\ nextId = 1
    /\ logs = [k \in LogKeys |-> <<>>]
    /\ pushed = [i \in 1..MaxPayloads |-> ""]
    /\ store = "up"
    /\ faults = 0

\* The files of the workspace, and what they hold when a task starts.
ExistingFiles == {"f"}
InitialFiles == [f \in ExistingFiles |-> <<"a">>]

\* The tools of a daemon before the first tool call.
NoToolUse ==
    /\ files = InitialFiles
    /\ agent_id = "drone-1"
    /\ tool_use = <<>>
    /\ tool_result = <<>>
    /\ commands = <<>>

\* The locals of run and execute_task before the first task.
InitLocals ==
    /\ max_iterations \in [Workers -> 0..MaxIterationsCap]
    /\ task = [w \in Workers |-> NoTask]
    /\ iteration = [w \in Workers |-> 0]
    /\ messages = [w \in Workers |-> <<>>]
    /\ final_response = [w \in Workers |-> <<>>]
    /\ outcome = [w \in Workers |-> <<>>]
    /\ calls = [w \in Workers |-> <<>>]
    /\ toolCalls = [w \in Workers |-> <<>>]
    /\ stranded = {}

InitDaemons ==
    /\ InitLocals
    /\ pc = [w \in Workers |-> "poll"]

\* One daemon, constructed on the managed-cloud variant, nothing sent yet.
Init ==
    /\ InitStore
    /\ InitDaemons
    /\ daemons = {"drone-1"}
    /\ \A w \in Workers \ daemons : max_iterations[w] = 0
    /\ env = BedrockEnv
    /\ backend = [w \in Workers |-> IF w \in daemons THEN "bedrock" ELSE "none"]
    /\ reply = <<>>
    /\ normalized = <<>>
    /\ NoToolUse
    /\ sigint = [w \in Workers |-> "none"]

(***************************************************************************)
(* A client of the store pushes a payload onto a worker's queue.           *)
(***************************************************************************)
Enqueue(w, kind) ==
    /\ nextId <= MaxPayloads
    /\ store = "up"
    /\ queue' = [queue EXCEPT ![w] = LPush(@, Payload(kind, nextId))]
    /\ pushed' = [pushed EXCEPT ![nextId] = kind]
    /\ nextId' = nextId + 1
    /\ UNCHANGED <<active, completed, failed, taskData, published, daemons,
                   max_iterations, pc, task, outcome, logs>>
    /\ UNCHANGED loopVars
    /\ UNCHANGED faultVars
    /\ UNCHANGED backendVars
    /\ UNCHANGED toolVars
    /\ UNCHANGED sigint

(***************************************************************************)
(* HiveWorkerDaemon.dequeue_task, called at the top of run's loop.  When   *)
(* it returns None, run sleeps poll_interval and polls again.              *)
(***************************************************************************)
\* dequeue_task gone wrong: a nil reply of rpoplpush is pushed all the same
DequeueTaskPushesNil(w) ==
    /\ pc[w] = "poll"
    /\ IF store = "down"
       THEN /\ pc' = [pc EXCEPT ![w] = "sleep"]
            /\ UNCHANGED <<queue, active, task>>
       ELSE IF queue[w] = <<>>
       THEN /\ pc' = [pc EXCEPT ![w] = "sleep"]
            /\ active' = [active EXCEPT ![w] = LPush(@, Payload("garbage", 0))]
            /\ UNCHANGED <<queue, task>>
       ELSE LET moved == RPopLPush(queue[w], active[w])
                task_json == Tail_(queue[w])
            IN  /\ queue' = [queue EXCEPT ![w] = moved.source]
                /\ active' = [active EXCEPT ![w] = moved.destination]
                /\ IF JSONDecodeError(task_json)
                   THEN /\ pc' = [pc EXCEPT ![w] = "sleep"]
                        /\ UNCHANGED task
                   ELSE /\ task' = [task EXCEPT ![w] = JsonLoads(task_json)]
                        /\ pc' = [pc EXCEPT ![w] = "dequeued"]
    /\ UNCHANGED <<completed, failed, taskData, published, nextId, daemons,
                   max_iterations, outcome, logs, pushed>>
    /\ UNCHANGED loopVars
    /\ UNCHANGED faultVars
    /\ UNCHANGED backendVars
    /\ UNCHANGED toolVars
    /\ UNCHANGED sigint

DequeueTask(w) ==
    /\ pc[w] = "poll"
    /\ IF store = "down"
       THEN \* rpoplpush raises RedisError: logged, return None
            /\ pc' = [pc EXCEPT ![w] = "sleep"]
            /\ UNCHANGED <<queue, active, task>>
       ELSE IF queue[w] = <<>>
       THEN \* rpoplpush returned nil: return None
            /\ pc' = [pc EXCEPT ![w] = "sleep"]
            /\ UNCHANGED <<queue, active, task>>
       ELSE LET moved == RPopLPush(queue[w], active[w])
                task_json == Tail_(queue[w])
            IN  /\ queue' = [queue EXCEPT ![w] = moved.source]
                /\ active' = [active EXCEPT ![w] = moved.destination]
                /\ IF JSONDecodeError(task_json)
                   THEN \* logged, return None
                        /\ pc' = [pc EXCEPT ![w] = "sleep"]
                        /\ UNCHANGED task
                   ELSE /\ task' = [task EXCEPT ![w] = JsonLoads(task_json)]
                        /\ pc' = [pc EXCEPT ![w] = "dequeued"]
    /\ UNCHANGED <<completed, failed, taskData, published, nextId, daemons,
                   max_iterations, outcome, logs, pushed>>
    /\ UNCHANGED loopVars
    /\ UNCHANGED faultVars
    /\ UNCHANGED backendVars
    /\ UNCHANGED toolVars
    /\ UNCHANGED sigint

\* run: "await asyncio.sleep(self.poll_interval)", then the next poll.  The
\* await is where a requested cancellation of the main task is delivered:
\* CancelledError is caught by neither except clause of run, asyncio.run
\* turns it into KeyboardInterrupt and main exits.
Sleep(w) ==
    /\ pc[w] = "sleep"
    /\ pc' = [pc EXCEPT ![w] = IF sigint[w] = "pending" THEN "stopped"
                                                        ELSE "poll"]
    /\ UNCHANGED storeVars
    /\ UNCHANGED loopVars
    /\ UNCHANGED faultVars
    /\ UNCHANGED backendVars
    /\ UNCHANGED toolVars
    /\ UNCHANGED sigint
    /\ UNCHANGED <<nextId, daemons, max_iterations, task, outcome, logs, pushed>>

(***************************************************************************)
(* Content blocks and backend responses (the normalized response dict of   *)
(* ClaudeBackend.send_message).  Texts are sequences of characters.        *)
(***************************************************************************)
TextBlock(text) == [type |-> "text", text |-> text]
ToolUseBlock(id, name, input) ==
    [type |-> "tool_use", id |-> id, name |-> name, input |-> input]
Response(stop_reason, content) ==
    [stop_reason |-> stop_reason, content |-> content]

\* JSON values of a tool input, tagged with their JSON type.
JStr(s) == <<"string", s>>
JNum(s) == <<"number", s>>

\* Shell commands that run longer than the bash tool's timeout.
SlowCommands == {"sleep 999"}

\* What a call of a tool does: return a value, or raise.
Return(pytype, value) == [kind |-> "return", value |-> <<pytype, value>>]
Raise(exception, message) == [kind |-> exception, value |-> <<message>>]

\* dict.get(key, default)
Get(dict, key, default) == IF key \in DOMAIN dict THEN dict[key] ELSE default

\* Tools.read
Read(file_path) ==
    IF file_path[1] # "string"
    THEN Raise("AttributeError", "object has no attribute 'startswith'")
    ELSE IF file_path[2] \notin ExistingFiles
         THEN Raise("ToolExecutionError", "File not found")
         ELSE Return("str", "file contents")

\* Tools.bash
Bash(command) ==
    IF command[2] \in SlowCommands
    THEN Raise("ToolExecutionError", "Command timed out")
    ELSE Return("dict", "stdout, stderr, exit_code, success")

(***************************************************************************)
(* tools.py: the tools on a workspace.  A workspace ws holds the content   *)
(* of the files edit and write act on, Tools.agent_id, the external        *)
(* commands run so far, and the store the coordination commands act on.    *)
(* File contents and search strings are sequences of characters.  A tool   *)
(* gives an outcome: what it returned or raised (out), the workspace it    *)
(* leaves (ws), and the number of files it opened for reading (opened).    *)
(***************************************************************************)
\* Longest file content, longest old_string / new_string of an edit.
MaxContent == 3
MaxOldLen == 2

\* Limits written in tools.py and in execute_task.
GrepMaxFiles == 100
GrepMaxMatches == 50
GlobMaxResults == 100
ListResultItems == 10

JBool(b) == <<"boolean", b>>
IsStr(v) == v[1] = "string"

ToolOutcome(out, ws) == [out |-> out, ws |-> ws, opened |-> 0]
ToolError(message, ws) ==
    ToolOutcome(Raise("ToolExecutionError", message), ws)

\* s.startswith(old) for sequences of characters
StartsWith(s, old) ==
    Len(old) <= Len(s) /\ SubSeq(s, 1, Len(old)) = old

\* old in content
Contains(content, old) ==
    \E i \in 1..(Len(content) + 1) :
        StartsWith(SubSeq(content, i, Len(content)), old)

\* content.count(old): occurrences that do not overlap, from the left;
\* the empty string occurs before every character and at the end
RECURSIVE Count(_, _)
Count(content, old) ==
    IF old = <<>> THEN Len(content) + 1
    ELSE IF content = <<>> THEN 0
    ELSE IF StartsWith(content, old)
         THEN 1 + Count(SubSeq(content, Len(old) + 1, Len(content)), old)
         ELSE Count(Tail(content), old)

\* content.replace(old, new)
RECURSIVE Replace(_, _, _)
Replace(content, old, new) ==
    IF content = <<>> THEN (IF old = <<>> THEN new ELSE <<>>)
    ELSE IF old = <<>>
         THEN new \o <<Head(content)>> \o Replace(Tail(content), old, new)
    ELSE IF StartsWith(content, old)
         THEN new \o Replace(SubSeq(content, Len(old) + 1, Len(content)),
                             old, new)
         ELSE <<Head(content)>> \o Replace(Tail(content), old, new)

\* Tools.edit gone wrong: a string that is not unique is replaced anyway
EditIgnoresUniqueness(ws, file_path, old_string, new_string, replace_all) ==
    IF ~IsStr(file_path)
    THEN ToolOutcome(Raise("AttributeError",
                           "object has no attribute 'startswith'"), ws)
    ELSE IF file_path[2] \notin DOMAIN ws.files
    THEN ToolError("File not found", ws)
    ELSE LET content == ws.files[file_path[2]] IN
         IF ~IsStr(old_string) \/ ~IsStr(new_string)
         THEN ToolError("Error editing", ws)
         ELSE IF ~Contains(content, old_string[2])
         THEN ToolError("String not found", ws)
         ELSE ToolOutcome(
                  Return("str", [replaced |-> Count(content, old_string[2])]),
                  [ws EXCEPT !.files[file_path[2]] =
                       Replace(content, old_string[2], new_string[2])])

\* Tools.edit
Edit(ws, file_path, old_string, new_string, replace_all) ==
    IF ~IsStr(file_path)
    THEN ToolOutcome(Raise("AttributeError",
                           "object has no attribute 'startswith'"), ws)
    ELSE IF file_path[2] \notin DOMAIN ws.files
    THEN ToolError("File not found", ws)
    ELSE LET content == ws.files[file_path[2]] IN
         IF ~IsStr(old_string)
         THEN ToolError("Error editing", ws)      \* TypeError of "in"
         ELSE IF ~Contains(content, old_string[2])
         THEN ToolError("String not found", ws)
         ELSE IF replace_all[2] # "true" /\ Count(content, old_string[2]) > 1
         THEN ToolError("String appears several times", ws)
         ELSE IF ~IsStr(new_string)
         THEN ToolError("Error editing", ws)      \* TypeError of replace
         ELSE ToolOutcome(
                  Return("str", [replaced |-> Count(content, old_string[2])]),
                  [ws EXCEPT !.files[file_path[2]] =
                       Replace(content, old_string[2], new_string[2])])

\* Tools.write: creates or overwrites; only existing files are kept track of
Write(ws, file_path, content) ==
    IF ~IsStr(file_path)
    THEN ToolOutcome(Raise("AttributeError",
                           "object has no attribute 'startswith'"), ws)
    ELSE IF ~IsStr(content)
    THEN ToolError("Error writing", ws)
    ELSE ToolOutcome(Return("str", [wrote |-> Len(content[2])]),
                     IF file_path[2] \in DOMAIN ws.files
                     THEN [ws EXCEPT !.files[file_path[2]] = content[2]]
                     ELSE ws)

\* The directories of the workspace: the files a recursive glob selects in
\* each, in the order glob gives them; a file is the sequence of its lines.
Directories ==
    [src  |-> <<  << <<"a">> >>,  << <<"b">> >>,  << <<"b", "a">>, <<"a">> >>  >>,
     many |-> [i \in 1..120 |-> << <<"a">> >>],
     late |-> [i \in 1..101 |-> IF i = 101 THEN << <<"a">> >>
                                           ELSE << <<"b">> >>] ]

\* re.compile(pattern): the patterns that are not regular expressions
InvalidPatterns == {"("}

\* pattern_re.search(line), for a pattern of one literal character
Search(pattern, line) == \E i \in DOMAIN line : line[i] = pattern

\* Tools.grep: the matches of one file, in line order
RECURSIVE FileMatches(_, _, _, _)
FileMatches(pattern, file, lines, i) ==
    IF i > Len(lines) THEN <<>>
    ELSE (IF Search(pattern, lines[i])
          THEN <<[file |-> file, line_number |-> i]>> ELSE <<>>)
         \o FileMatches(pattern, file, lines, i + 1)

\* Tools.grep: the loop over files_to_search[:100], files lo..hi of them
\* (split in halves to keep the evaluation shallow)
RECURSIVE SearchFiles(_, _, _, _)
SearchFiles(pattern, files_to_search, lo, hi) ==
    IF lo > hi THEN <<>>
    ELSE IF lo = hi THEN FileMatches(pattern, lo, files_to_search[lo], 1)
    ELSE LET mid == (lo + hi) \div 2 IN
         SearchFiles(pattern, files_to_search, lo, mid)
         \o SearchFiles(pattern, files_to_search, mid + 1, hi)

\* lst[:n]
Take(lst, n) == SubSeq(lst, 1, IF Len(lst) < n THEN Len(lst) ELSE n)

\* Tools.grep gone wrong: the pattern is compiled when the first file is read
GrepCompilesLate(ws, pattern, path, glob_pattern) ==
    IF ~IsStr(path)
    THEN ToolOutcome(Raise("AttributeError",
                           "object has no attribute 'startswith'"), ws)
    ELSE IF path[2] \notin DOMAIN ws.files \cup DOMAIN Directories
    THEN ToolError("Path not found", ws)
    ELSE IF ~IsStr(pattern)
    THEN ToolOutcome(Raise("TypeError",
                           "first argument must be string or compiled pattern"),
                     ws)
    ELSE IF ~IsStr(glob_pattern) /\ path[2] \in DOMAIN Directories
    THEN ToolOutcome(Raise("TypeError", "join() argument must be str"), ws)
    ELSE LET files_to_search == IF path[2] \in DOMAIN ws.files
                                THEN << <<ws.files[path[2]]>> >>
                                ELSE Directories[path[2]]
             opened == Take(files_to_search, GrepMaxFiles)
         IN  IF pattern[2] \in InvalidPatterns
             THEN [out |-> Raise("ToolExecutionError", "Invalid regex pattern"),
                   ws |-> ws, opened |-> IF opened = <<>> THEN 0 ELSE 1]
             ELSE [out |-> Return("list",
                               Take(SearchFiles(pattern[2], opened, 1, Len(opened)),
                                    GrepMaxMatches)),
                   ws |-> ws, opened |-> Len(opened)]

\* Tools.grep
Grep(ws, pattern, path, glob_pattern) ==
    IF ~IsStr(path)
    THEN ToolOutcome(Raise("AttributeError",
                           "object has no attribute 'startswith'"), ws)
    ELSE IF path[2] \notin DOMAIN ws.files \cup DOMAIN Directories
    THEN ToolError("Path not found", ws)
    ELSE IF ~IsStr(pattern)
    THEN \* re.compile raises TypeError, which is not re.error
         ToolOutcome(Raise("TypeError",
                           "first argument must be string or compiled pattern"),
                     ws)
    ELSE IF pattern[2] \in InvalidPatterns
    THEN ToolError("Invalid regex pattern", ws)
    ELSE IF ~IsStr(glob_pattern) /\ path[2] \in DOMAIN Directories
    THEN \* os.path.join, outside every try
         ToolOutcome(Raise("TypeError", "join() argument must be str"), ws)
    ELSE LET files_to_search == IF path[2] \in DOMAIN ws.files
                                THEN << <<ws.files[path[2]]>> >>
                                ELSE Directories[path[2]]
             opened == Take(files_to_search, GrepMaxFiles)
         IN  [out |-> Return("list",
                             Take(SearchFiles(pattern[2], opened, 1, Len(opened)),
                                  GrepMaxMatches)),
              ws |-> ws, opened |-> Len(opened)]

\* Tools.glob: the paths found, sorted, at most 100 of them
Glob(ws, pattern, path) ==
    IF ~IsStr(path)
    THEN ToolOutcome(Raise("AttributeError",
                           "object has no attribute 'startswith'"), ws)
    ELSE IF path[2] \notin DOMAIN ws.files \cup DOMAIN Directories
    THEN ToolError("Path not found", ws)
    ELSE IF ~IsStr(pattern)
    THEN ToolError("Error globbing", ws)
    ELSE ToolOutcome(
             Return("list",
                    Take(IF path[2] \in DOMAIN ws.files
                         THEN <<>>
                         ELSE [i \in DOMAIN Directories[path[2]] |-> [file |-> i]],
                         GlobMaxResults)),
             ws)

\* The external command cmd run by a coordination tool: the workspace it
\* leaves and its return code.  take-task moves the oldest queued payload of
\* the worker to its active list, task-done and task-failed take the entry
\* out of the active list into the terminal collection, hive-assign pushes
\* a payload onto the queue of the worker named.
RunCommand(ws, cmd, arg) ==
    LET ran == [ws EXCEPT !.commands = Append(@, cmd)]
        w == ws.agent_id
        record(status) == [id |-> Tail_(ws.active[w])[2], status |-> status,
                           worker |-> w]
    IN  CASE cmd = "take-task" ->
                 IF ws.queue[w] = <<>>
                 THEN [ws |-> ran, returncode |-> 0]
                 ELSE LET moved == RPopLPush(ws.queue[w], ws.active[w]) IN
                      [ws |-> [ran EXCEPT !.queue[w] = moved.source,
                                          !.active[w] = moved.destination],
                       returncode |-> 0]
          [] cmd \in {"task-done", "task-failed"} ->
                 IF ws.active[w] = <<>>
                 THEN [ws |-> ran, returncode |-> 1]
                 ELSE [ws |-> [ran EXCEPT
                           !.active[w] = RPop(@),
                           !.completed = IF cmd = "task-done"
                                         THEN @ \cup {record("completed")} ELSE @,
                           !.failed = IF cmd = "task-failed"
                                      THEN @ \cup {record("failed")} ELSE @],
                       returncode |-> 0]
          [] cmd = "hive-assign" ->
                 IF arg \in DOMAIN ws.queue /\ ws.nextId <= MaxPayloads
                 THEN [ws |-> [ran EXCEPT
                           !.queue[arg] = LPush(@, Payload("json", ws.nextId)),
                           !.nextId = @ + 1],
                       returncode |-> 0]
                 ELSE [ws |-> ran, returncode |-> 1]
          [] OTHER -> [ws |-> ran, returncode |-> 0]

\* Tools.hive_assign
HiveAssign(ws, drone_id) ==
    IF ~IsStr(drone_id)
    THEN LET ran == RunCommand(ws, "hive-assign", "") IN
         ToolError("Failed to assign task", ran.ws)
    ELSE LET ran == RunCommand(ws, "hive-assign", drone_id[2]) IN
         IF ran.returncode # 0
         THEN ToolError("Failed to assign task", ran.ws)
         ELSE ToolOutcome(Return("dict", "success, task_id, drone_id, title, output"),
                          ran.ws)

\* Tools.hive_status, hive_failed, hive_config: queries
HiveQuery(ws, cmd) ==
    ToolOutcome(Return("dict", "success, output"), RunCommand(ws, cmd, "").ws)

\* Tools.hive_my_tasks
HiveMyTasks(ws) ==
    IF ws.agent_id = ""
    THEN ToolError("AGENT_ID not set (not running as worker)", ws)
    ELSE ToolOutcome(Return("dict", "success, agent_id, tasks"),
                     RunCommand(ws, "my-tasks", "").ws)

\* Tools.hive_take_task gone wrong: the worker identity is not looked at
HiveTakeTaskUnchecked(ws) ==
    ToolOutcome(Return("dict", "success, has_task"),
                RunCommand([ws EXCEPT !.agent_id =
                                IF @ = "" THEN "drone-1" ELSE @],
                           "take-task", "").ws)

\* Tools.hive_take_task
HiveTakeTask(ws) ==
    IF ws.agent_id = ""
    THEN ToolError("AGENT_ID not set (not running as worker)", ws)
    ELSE ToolOutcome(Return("dict", "success, has_task"),
                     RunCommand(ws, "take-task", "").ws)

\* Tools.hive_task_done
HiveTaskDone(ws) ==
    IF ws.agent_id = ""
    THEN ToolError("AGENT_ID not set (not running as worker)", ws)
    ELSE LET ran == RunCommand(ws, "task-done", "") IN
         IF ran.returncode # 0
         THEN ToolError("Error in hive_task_done", ran.ws)
         ELSE ToolOutcome(Return("dict", "success, agent_id, output"), ran.ws)

\* Tools.hive_task_failed
HiveTaskFailed(ws) ==
    IF ws.agent_id = ""
    THEN ToolError("AGENT_ID not set (not running as worker)", ws)
    ELSE LET ran == RunCommand(ws, "task-failed", "") IN
         IF ran.returncode # 0
         THEN ToolError("Error in hive_task_failed", ran.ws)
         ELSE ToolOutcome(Return("dict", "success, agent_id, error, output"),
                          ran.ws)

\* Tools.execute_tool on the workspace ws
ExecuteToolOn(ws, tool_name, tool_input) ==
    CASE tool_name = "read" ->
             ToolOutcome(Read(Get(tool_input, "file_path", JStr(""))), ws)
      [] tool_name = "edit" ->
             Edit(ws, Get(tool_input, "file_path", JStr("")),
                  Get(tool_input, "old_string", JStr(<<>>)),
                  Get(tool_input, "new_string", JStr(<<>>)),
                  Get(tool_input, "replace_all", JBool("false")))
      [] tool_name = "write" ->
             Write(ws, Get(tool_input, "file_path", JStr("")),
                   Get(tool_input, "content", JStr(<<>>)))
      [] tool_name = "bash" ->
             ToolOutcome(Bash(Get(tool_input, "command", JStr(""))), ws)
      [] tool_name = "grep" ->
             Grep(ws, Get(tool_input, "pattern", JStr("")),
                  Get(tool_input, "path", JStr(".")),
                  Get(tool_input, "glob", JStr("*")))
      [] tool_name = "glob" ->
             Glob(ws, Get(tool_input, "pattern", JStr("*")),
                  Get(tool_input, "path", JStr(".")))
      [] tool_name = "hive_assign" ->
             HiveAssign(ws, Get(tool_input, "drone_id", JStr("")))
      [] tool_name = "hive_status" -> HiveQuery(ws, "hive-status")
      [] tool_name = "hive_failed" -> HiveQuery(ws, "hive-failed")
      [] tool_name = "hive_config" -> HiveQuery(ws, "hive-config")
      [] tool_name = "hive_my_tasks" -> HiveMyTasks(ws)
      [] tool_name = "hive_take_task" -> HiveTakeTask(ws)
      [] tool_name = "hive_task_done" -> HiveTaskDone(ws)
      [] tool_name = "hive_task_failed" -> HiveTaskFailed(ws)
      [] OTHER -> ToolError("Unknown tool", ws)

\* Tools.execute_tool: the keys it reads from tool_input with .get, per
\* tool name it handles
InputKeys ==
    [read |-> {"file_path", "offset", "limit"},
     edit |-> {"file_path", "old_string", "new_string", "replace_all"},
     write |-> {"file_path", "content"},
     bash |-> {"command", "timeout"},
     grep |-> {"pattern", "path", "glob", "case_insensitive", "context_lines"},
     glob |-> {"pattern", "path"},
     hive_assign |-> {"drone_id", "title", "description", "jira_ticket"},
     hive_status |-> {},
     hive_failed |-> {},
     hive_config |-> {"key", "default"},
     hive_my_tasks |-> {},
     hive_take_task |-> {},
     hive_task_done |-> {"result"},
     hive_task_failed |-> {"error"}]

\* TOOL_DEFINITIONS gone wrong: grep's schema does not declare "glob"
ToolDefinitionsWithoutGlob ==
    [read |-> {"file_path", "offset", "limit"},
     edit |-> {"file_path", "old_string", "new_string", "replace_all"},
     write |-> {"file_path", "content"},
     bash |-> {"command", "timeout"},
     grep |-> {"pattern", "path", "case_insensitive", "context_lines"},
     glob |-> {"pattern", "path"},
     hive_assign |-> {"drone_id", "title", "description", "jira_ticket"},
     hive_status |-> {},
     hive_failed |-> {},
     hive_config |-> {"key", "default"},
     hive_my_tasks |-> {},
     hive_take_task |-> {},
     hive_task_done |-> {"result"},
     hive_task_failed |-> {"error"}]

\* TOOL_DEFINITIONS: per advertised tool name, the property names of its
\* input_schema
TOOL_DEFINITIONS ==
    [read |-> {"file_path", "offset", "limit"},
     edit |-> {"file_path", "old_string", "new_string", "replace_all"},
     write |-> {"file_path", "content"},
     bash |-> {"command", "timeout"},
     grep |-> {"pattern", "path", "glob", "case_insensitive", "context_lines"},
     glob |-> {"pattern", "path"},
     hive_assign |-> {"drone_id", "title", "description", "jira_ticket"},
     hive_status |-> {},
     hive_failed |-> {},
     hive_config |-> {"key", "default"},
     hive_my_tasks |-> {},
     hive_take_task |-> {},
     hive_task_done |-> {"result"},
     hive_task_failed |-> {"error"}]

\* The workspace the tools of a daemon's task start on.
TaskWorkspace ==
    [files |-> InitialFiles, agent_id |-> "drone-1",
     commands |-> <<>>, queue |-> [w \in Workers |-> <<>>],
     active |-> [w \in Workers |-> <<>>], completed |-> {}, failed |-> {},
     nextId |-> 1]

\* Tools.execute_tool: what it returns or raises
ExecuteTool(tool_name, tool_input) ==
    ExecuteToolOn(TaskWorkspace, tool_name, tool_input).out

\* "Format result" gone wrong: a list is serialized whole
FormatResultWholeList(result) ==
    CASE result[1] = "dict" -> <<"json.dumps", result[2]>>
      [] result[1] = "list" ->
             IF Len(result[2]) = 0
             THEN <<"No results found">>
             ELSE <<"json.dumps", result[2]>>
      [] OTHER -> <<result[2]>>

\* execute_task, "Format result": json.dumps for a dict, str otherwise
\* for a list: "No results found", or json.dumps of result[:10] and, past
\* ten items, the note "... and N more"
FormatResult(result) ==
    CASE result[1] = "dict" -> <<"json.dumps", result[2]>>
      [] result[1] = "list" ->
             IF Len(result[2]) = 0
             THEN <<"No results found">>
             ELSE <<"json.dumps", Take(result[2], ListResultItems)>>
                  \o (IF Len(result[2]) > ListResultItems
                      THEN <<[more |-> Len(result[2]) - ListResultItems]>>
                      ELSE <<>>)
      [] OTHER -> <<result[2]>>

\* The tool_result block of one executed tool_use block
ToolResultBlock(tool_use_id, out) ==
    IF out.kind = "return"
    THEN [type |-> "tool_result", tool_use_id |-> tool_use_id,
          content |-> FormatResult(out.value)]
    ELSE [type |-> "tool_result", tool_use_id |-> tool_use_id,
          content |-> <<"Error: ">> \o out.value, is_error |-> TRUE]

\* execute_task, tool_use branch: block.get('name'), block.get('input'),
\* block.get('id') of a tool_use block
ToolCall(block) ==
    [name |-> Get(block, "name", None), input |-> Get(block, "input", None),
     id |-> Get(block, "id", None)]

\* The for loop gone wrong: tool_results inserted at the front of the list
RECURSIVE RunToolsReversed(_)
RunToolsReversed(content) ==
    IF content = <<>>
    THEN [calls |-> <<>>, results |-> <<>>, raised |-> <<>>]
    ELSE LET block == Head(content) IN
         IF block.type # "tool_use"
         THEN RunToolsReversed(Tail(content))
         ELSE LET out == ExecuteTool(ToolCall(block).name, ToolCall(block).input) IN
              IF out.kind \notin {"return", "ToolExecutionError"}
              THEN [calls |-> <<ToolCall(block).id>>, results |-> <<>>,
                    raised |-> out.value]
              ELSE LET rest == RunToolsReversed(Tail(content)) IN
                   [calls |-> <<ToolCall(block).id>> \o rest.calls,
                    results |-> rest.results \o <<ToolResultBlock(ToolCall(block).id, out)>>,
                    raised |-> rest.raised]

\* The for loop gone wrong: ToolExecutionError is not caught
RECURSIVE RunToolsStopsAtError(_)
RunToolsStopsAtError(content) ==
    IF content = <<>>
    THEN [calls |-> <<>>, results |-> <<>>, raised |-> <<>>]
    ELSE LET block == Head(content) IN
         IF block.type # "tool_use"
         THEN RunToolsStopsAtError(Tail(content))
         ELSE LET out == ExecuteTool(ToolCall(block).name, ToolCall(block).input) IN
              IF out.kind # "return"
              THEN [calls |-> <<ToolCall(block).id>>, results |-> <<>>,
                    raised |-> out.value]
              ELSE LET rest == RunToolsStopsAtError(Tail(content)) IN
                   [calls |-> <<ToolCall(block).id>> \o rest.calls,
                    results |-> <<ToolResultBlock(ToolCall(block).id, out)>> \o rest.results,
                    raised |-> rest.raised]

\* execute_task, tool_use branch: the for loop over response['content'].
\* calls: ids handed to execute_tool, in order; results: tool_results;
\* raised: <<>> or the message of an exception other than ToolExecutionError,
\* which leaves the loop at the block that raised it.
RECURSIVE RunTools(_)
RunTools(content) ==
    IF content = <<>>
    THEN [calls |-> <<>>, results |-> <<>>, raised |-> <<>>]
    ELSE LET block == Head(content) IN
         IF block.type # "tool_use"
         THEN RunTools(Tail(content))
         ELSE LET out == ExecuteTool(ToolCall(block).name, ToolCall(block).input) IN
              IF out.kind \notin {"return", "ToolExecutionError"}
              THEN [calls |-> <<ToolCall(block).id>>, results |-> <<>>,
                    raised |-> out.value]
              ELSE LET rest == RunTools(Tail(content)) IN
                   [calls |-> <<ToolCall(block).id>> \o rest.calls,
                    results |-> <<ToolResultBlock(ToolCall(block).id, out)>> \o rest.results,
                    raised |-> rest.raised]

\* execute_task, end_turn branch: the text of the text blocks, concatenated
RECURSIVE ConcatText(_)
ConcatText(content) ==
    IF content = <<>>
    THEN <<>>
    ELSE (IF Head(content).type = "text" THEN Head(content).text ELSE <<>>)
         \o ConcatText(Tail(content))

\* text.strip() is empty
IsBlank(text) == \A i \in DOMAIN text : text[i] \in {" ", "\n"}

\* execute_task, end_turn branch: the events it logs
RECURSIVE EndTurnEvents(_)
EndTurnEvents(content) ==
    IF content = <<>>
    THEN <<"task_complete">>
    ELSE (IF Head(content).type = "text" /\ ~IsBlank(Head(content).text)
          THEN <<"claude_response">> ELSE <<>>)
         \o EndTurnEvents(Tail(content))

\* The for loop gone wrong: every tool is started before a result is taken
RECURSIVE ToolEventsCallsFirst(_)
ToolEventsCallsFirst(content) ==
    IF content = <<>>
    THEN <<>>
    ELSE LET block == Head(content) IN
         IF block.type # "tool_use"
         THEN ToolEventsCallsFirst(Tail(content))
         ELSE LET out == ExecuteTool(ToolCall(block).name, ToolCall(block).input) IN
              CASE out.kind = "return" ->
                       <<"tool_call">> \o ToolEventsCallsFirst(Tail(content))
                       \o <<"tool_result">>
                [] out.kind = "ToolExecutionError" ->
                       <<"tool_call">> \o ToolEventsCallsFirst(Tail(content))
                       \o <<"tool_error">>
                [] OTHER -> <<"tool_call">>

\* execute_task, tool_use branch: the events the for loop logs
RECURSIVE ToolEvents(_)
ToolEvents(content) ==
    IF content = <<>>
    THEN <<>>
    ELSE LET block == Head(content) IN
         IF block.type # "tool_use"
         THEN ToolEvents(Tail(content))
         ELSE LET out == ExecuteTool(ToolCall(block).name, ToolCall(block).input) IN
              CASE out.kind = "return" ->
                       <<"tool_call", "tool_result">> \o ToolEvents(Tail(content))
                [] out.kind = "ToolExecutionError" ->
                       <<"tool_call", "tool_error">> \o ToolEvents(Tail(content))
                [] OTHER -> <<"tool_call">>

\* The responses the backend is taken to give.
Responses ==
    { Response("end_turn", <<TextBlock(<<"a">>), TextBlock(<<"b">>)>>),
      Response("end_turn", <<TextBlock(<<>>)>>),
      Response("tool_use",
               <<ToolUseBlock("tu1", "bash", [command |-> JStr("true")])>>),
      Response("tool_use",
               <<TextBlock(<<"a">>),
                 ToolUseBlock("tu1", "read", [file_path |-> JStr("f")])>>),
      Response("tool_use",
               <<TextBlock(<<"a">>),
                 ToolUseBlock("tu1", "bash", [command |-> JStr("sleep 999")]),
                 ToolUseBlock("tu2", "read", [file_path |-> JStr("f")])>>),
      Response("tool_use",
               <<ToolUseBlock("tu1", "read", [file_path |-> JNum("5")]),
                 ToolUseBlock("tu2", "bash", [command |-> JStr("true")])>>),
      Response("tool_use", <<>>),
      Response("max_tokens", <<TextBlock(<<"a">>)>>) }

(***************************************************************************)
(* backends.py: send_message of the three variants.  What the model side   *)
(* hands over is, for the direct-API variant, the SDK's response object    *)
(* (blocks with attributes), for the managed-cloud variant the JSON body   *)
(* of invoke_model (keys may be absent), for the CLI variant the stdout    *)
(* lines, the return code and the stderr of the claude process.            *)
(***************************************************************************)
\* Most content blocks of a reply, most stdout lines of the CLI process.
MaxBlocks == 2
MaxLines == 2

\* text.strip(): leading and trailing white space removed
RECURSIVE StripLeft(_)
StripLeft(text) ==
    IF text # <<>> /\ Head(text) \in {" ", "\n"} THEN StripLeft(Tail(text))
                                                  ELSE text
RECURSIVE StripRight(_)
StripRight(text) ==
    IF text # <<>> /\ text[Len(text)] \in {" ", "\n"}
    THEN StripRight(SubSeq(text, 1, Len(text) - 1))
    ELSE text
Strip(text) == StripRight(StripLeft(text))

\* AnthropicAPIBackend.send_message
AnthropicSendMessage(r) ==
    Return("dict",
           [content |-> [i \in DOMAIN r.content |->
                            [type |-> r.content[i].type,
                             text |-> Get(r.content[i], "text", <<>>)]],
            stop_reason |-> r.stop_reason,
            usage |-> [input_tokens |-> r.usage.input_tokens,
                       output_tokens |-> r.usage.output_tokens]])

\* BedrockBackend.send_message; {} is the dict without keys
BedrockSendMessage(r) ==
    Return("dict",
           [content |-> Get(r, "content", <<>>),
            stop_reason |-> Get(r, "stop_reason", None),
            usage |-> Get(r, "usage", <<>>)])

\* ClaudeCLIBackend.send_message: final_text after an "assistant" event
RECURSIVE AssistantText(_, _)
AssistantText(content, final_text) ==
    IF content = <<>>
    THEN final_text
    ELSE AssistantText(Tail(content),
                       IF Get(Head(content), "type", None) = "text"
                       THEN Get(Head(content), "text", <<>>)
                       ELSE final_text)

\* ClaudeCLIBackend.send_message: final_text after one JSON event
EventText(event, final_text) ==
    CASE Get(event, "type", None) = "assistant" ->
             AssistantText(Get(Get(event, "message", <<>>), "content", <<>>),
                           final_text)
      [] Get(event, "type", None) = "result" ->
             IF Get(event, "result", <<>>) # <<>>
             THEN Get(event, "result", <<>>)
             ELSE final_text
      [] OTHER -> final_text

\* ClaudeCLIBackend.send_message: the for loop over process.stdout.  A line
\* is blank, a JSON object (an event), another JSON value (its .get raises
\* AttributeError), or not JSON (plain text).
RECURSIVE FoldLines(_, _)
FoldLines(lines, final_text) ==
    IF lines = <<>>
    THEN Return("str", final_text)
    ELSE LET line == Head(lines) IN
         CASE line.kind = "blank" -> FoldLines(Tail(lines), final_text)
           [] line.kind = "event" ->
                  FoldLines(Tail(lines), EventText(line.event, final_text))
           [] line.kind = "scalar" ->
                  Raise("AttributeError", "object has no attribute 'get'")
           [] OTHER ->
                  FoldLines(Tail(lines),
                            final_text \o Strip(line.text) \o <<"\n">>)

\* ClaudeCLIBackend.send_message
CLISendMessage(r) ==
    LET folded == FoldLines(r.lines, <<>>) IN
    IF folded.kind # "return"
    THEN folded
    ELSE IF r.returncode # 0
         THEN Raise("RuntimeError", <<"Claude CLI failed: ">> \o r.stderr)
         ELSE Return("dict",
                     [content |-> <<TextBlock(Strip(folded.value[2]))>>,
                      stop_reason |-> "end_turn",
                      usage |-> [input_tokens |-> 0, output_tokens |-> 0]])

\* self.backend.send_message of the variant named
SendMessageOf(variant, r) ==
    CASE variant = "api" -> AnthropicSendMessage(r)
      [] variant = "bedrock" -> BedrockSendMessage(r)
      [] variant = "cli" -> CLISendMessage(r)

\* Sequences of at most n elements of S.
SeqUpTo(S, n) == UNION {[1..k -> S] : k \in 0..n}

\* The content blocks a model reply is made of.
ReplyBlocks ==
    { TextBlock(<<"a">>),
      ToolUseBlock("tu1", "bash", [command |-> JStr("true")]),
      ToolUseBlock("tu2", "read", [file_path |-> JStr("f")]) }

HasToolUse(content) == \E i \in DOMAIN content : content[i].type = "tool_use"

\* The stop_reason the provider gives with a content.
ProviderStopReasons(content) ==
    IF HasToolUse(content) THEN {"tool_use"} ELSE {"end_turn", "max_tokens"}

\* Response objects of the Anthropic SDK.
APIReplies ==
    { r \in [content : SeqUpTo(ReplyBlocks, MaxBlocks),
             stop_reason : {"end_turn", "tool_use", "max_tokens"},
             usage : {[input_tokens |-> 1, output_tokens |-> 1]}] :
        r.stop_reason \in ProviderStopReasons(r.content) }

\* Response bodies of Bedrock's invoke_model, with and without "usage".
BedrockReplies ==
    APIReplies \cup
    { [content |-> r.content, stop_reason |-> r.stop_reason] : r \in APIReplies }

\* The stdout lines of the claude process.
CLILines ==
    { [kind |-> "blank"],
      [kind |-> "scalar"],
      [kind |-> "text", text |-> <<" ", "p">>],
      [kind |-> "event", event |-> [type |-> "system"]],
      [kind |-> "event", event |-> [type |-> "result", result |-> <<"r">>]],
      [kind |-> "event", event |-> [type |-> "result", result |-> <<>>]],
      [kind |-> "event",
       event |-> [type |-> "assistant",
                  message |-> [content |-> <<TextBlock(<<"a">>)>>]]],
      [kind |-> "event",
       event |-> [type |-> "assistant",
                  message |-> [content |->
                      <<TextBlock(<<"a">>),
                        ToolUseBlock("tu1", "bash", [command |-> JStr("true")])>>]]] }

CLIReplies ==
    [lines : SeqUpTo(CLILines, MaxLines), returncode : {0, 1},
     stderr : {<<"e">>}]

RepliesOf(variant) ==
    CASE variant = "api" -> APIReplies
      [] variant = "bedrock" -> BedrockReplies
      [] variant = "cli" -> CLIReplies

(***************************************************************************)
(* HiveWorkerDaemon.execute_task                                           *)
(***************************************************************************)
\* The initial user message built from the task's title and description
UserMessage(t) ==
    [role |-> "user", content |-> <<[type |-> "task_prompt", id |-> t.id]>>]

\* except Exception as e: error_msg = f"Execution failed: {str(e)}"
ExecutionFailed(message) == <<"Execution failed: ">> \o message

MaxIterationsReached == <<"Max iterations reached">>
NoSummary == <<"Task completed (no summary provided)">>

\* "if iteration >= self.max_iterations" after the loop
HitMaxIterations(it, max) == it >= max

\* The while loop gone wrong: one pass more than the cap allows
LoopGuardOneMore(it, max) == it <= max

\* "while iteration < self.max_iterations"
LoopGuard(it, max) == it < max

\* hasattr(d, name) for a dict d: its keys are not attributes
HasAttr(d, name) == FALSE

\* The else branch gone wrong: it only breaks
UnexpectedStopReasonBreaks(response) == "break"

\* The else branch logs response.stop_reason, then breaks: response is a
\* dict, so reading the attribute raises AttributeError before the break.
UnexpectedStopReason(response) ==
    IF HasAttr(response, "stop_reason") THEN "break" ELSE "AttributeError"

\* HiveWorkerDaemon.log_activity for the events of one step of daemon w:
\* a RedisError of the first xadd is logged and swallowed.
WriteLogs(w, events) ==
    logs' = IF store = "up" THEN LogActivity(logs, w, task[w].id, events)
                            ELSE logs

ExecuteTaskBegin(w) ==
    /\ pc[w] = "dequeued"
    /\ WriteLogs(w, <<"task_start">>)
    /\ messages' = [messages EXCEPT ![w] = <<UserMessage(task[w])>>]
    /\ iteration' = [iteration EXCEPT ![w] = 0]
    /\ final_response' = [final_response EXCEPT ![w] = <<>>]
    /\ calls' = [calls EXCEPT ![w] = <<>>]
    /\ toolCalls' = [toolCalls EXCEPT ![w] = <<>>]
    /\ pc' = [pc EXCEPT ![w] = "loop"]
    /\ UNCHANGED storeVars
    /\ UNCHANGED faultVars
    /\ UNCHANGED backendVars
    /\ UNCHANGED toolVars
    /\ UNCHANGED sigint
    /\ UNCHANGED <<nextId, daemons, max_iterations, task, outcome, pushed>>

\* One pass of the while loop whose backend call raises.
BackendRaises(w) ==
    /\ calls' = [calls EXCEPT ![w] = Append(@, "raise")]
    /\ pc' = [pc EXCEPT ![w] = "raised"]
    /\ outcome' = [outcome EXCEPT ![w] = ExecutionFailed(<<"backend error">>)]
    /\ WriteLogs(w, <<"task_failed">>)
    /\ UNCHANGED <<messages, final_response, toolCalls>>

\* One pass of the while loop whose backend call returns response.
BackendResponds(w, response) ==
    LET assistant_message == [role |-> "assistant", content |-> response.content]
        appended == Append(messages[w], assistant_message)
        run == RunTools(response.content)
    IN  /\ calls' = [calls EXCEPT ![w] = Append(@, response.stop_reason)]
        /\ CASE response.stop_reason = "end_turn" ->
                  /\ messages' = [messages EXCEPT ![w] = appended]
                  /\ final_response' = [final_response EXCEPT
                         ![w] = @ \o ConcatText(response.content)]
                  /\ pc' = [pc EXCEPT ![w] = "check"]
                  /\ WriteLogs(w, EndTurnEvents(response.content))
                  /\ UNCHANGED <<toolCalls, outcome>>
             [] response.stop_reason = "tool_use" ->
                  /\ toolCalls' = [toolCalls EXCEPT ![w] = @ \o run.calls]
                  /\ IF run.raised # <<>>
                     THEN /\ messages' = [messages EXCEPT ![w] = appended]
                          /\ pc' = [pc EXCEPT ![w] = "raised"]
                          /\ outcome' = [outcome EXCEPT
                                 ![w] = ExecutionFailed(run.raised)]
                          /\ WriteLogs(w, ToolEvents(response.content)
                                            \o <<"task_failed">>)
                     ELSE /\ messages' = [messages EXCEPT ![w] =
                                 Append(appended,
                                        [role |-> "user", content |-> run.results])]
                          /\ WriteLogs(w, ToolEvents(response.content))
                          /\ UNCHANGED <<pc, outcome>>
                  /\ UNCHANGED final_response
             [] OTHER ->
                  /\ messages' = [messages EXCEPT ![w] = appended]
                  /\ IF UnexpectedStopReason(response) = "break"
                     THEN /\ pc' = [pc EXCEPT ![w] = "check"]
                          /\ UNCHANGED <<outcome, logs>>
                     ELSE /\ pc' = [pc EXCEPT ![w] = "raised"]
                          /\ outcome' = [outcome EXCEPT ![w] = ExecutionFailed(
                                 <<"'dict' object has no attribute 'stop_reason'">>)]
                          /\ WriteLogs(w, <<"task_failed">>)
                  /\ UNCHANGED <<final_response, toolCalls>>

\* The while loop gone wrong: a RedisError of log_activity is not caught
LoopIterationLogErrorEscapes(w) ==
    /\ pc[w] = "loop"
    /\ LoopGuard(iteration[w], max_iterations[w])
    /\ iteration' = [iteration EXCEPT ![w] = @ + 1]
    /\ \/ BackendRaises(w)
       \/ \E response \in Responses :
             IF store = "up"
             THEN BackendResponds(w, response)
             ELSE /\ calls' = [calls EXCEPT ![w] = Append(@, response.stop_reason)]
                  /\ messages' = [messages EXCEPT ![w] = Append(@,
                         [role |-> "assistant", content |-> response.content])]
                  /\ pc' = [pc EXCEPT ![w] = "raised"]
                  /\ outcome' = [outcome EXCEPT
                         ![w] = ExecutionFailed(<<"Redis is unreachable">>)]
                  /\ UNCHANGED <<final_response, toolCalls, logs>>
    /\ UNCHANGED storeVars
    /\ UNCHANGED faultVars
    /\ UNCHANGED backendVars
    /\ UNCHANGED toolVars
    /\ UNCHANGED sigint
    /\ UNCHANGED <<nextId, daemons, max_iterations, task, pushed>>

LoopIteration(w) ==
    /\ pc[w] = "loop"
    /\ LoopGuard(iteration[w], max_iterations[w])
    /\ iteration' = [iteration EXCEPT ![w] = @ + 1]
    /\ \/ BackendRaises(w)
       \/ \E response \in Responses : BackendResponds(w, response)
    /\ UNCHANGED storeVars
    /\ UNCHANGED faultVars
    /\ UNCHANGED backendVars
    /\ UNCHANGED toolVars
    /\ UNCHANGED sigint
    /\ UNCHANGED <<nextId, daemons, max_iterations, task, pushed>>

\* The loop was left (guard false, or break): the check after the loop,
\* then return or raise.
CapCheck(w) ==
    /\ \/ pc[w] = "check"
       \/ pc[w] = "loop" /\ ~LoopGuard(iteration[w], max_iterations[w])
    /\ IF HitMaxIterations(iteration[w], max_iterations[w])
       THEN /\ pc' = [pc EXCEPT ![w] = "raised"]
            /\ outcome' = [outcome EXCEPT
                   ![w] = ExecutionFailed(MaxIterationsReached)]
            /\ WriteLogs(w, <<"task_failed">>)
       ELSE /\ pc' = [pc EXCEPT ![w] = "returned"]
            /\ outcome' = [outcome EXCEPT ![w] =
                   IF final_response[w] # <<>> THEN final_response[w]
                                               ELSE NoSummary]
            /\ UNCHANGED logs
    /\ UNCHANGED storeVars
    /\ UNCHANGED loopVars
    /\ UNCHANGED faultVars
    /\ UNCHANGED backendVars
    /\ UNCHANGED toolVars
    /\ UNCHANGED sigint
    /\ UNCHANGED <<nextId, daemons, max_iterations, task, pushed>>

(***************************************************************************)
(* HiveWorkerDaemon.mark_task_completed / mark_task_failed, called by run  *)
(***************************************************************************)
CompletedTask(t, result, w) ==
    [id |-> t.id, status |-> "completed", result |-> result, worker |-> w]
FailedTask(t, error, w) ==
    [id |-> t.id, status |-> "failed", error |-> error, worker |-> w]

\* Back at the top of run's loop; execute_task's locals are gone.
BackToPoll(w) ==
    /\ pc' = [pc EXCEPT ![w] = "poll"]
    /\ task' = [task EXCEPT ![w] = NoTask]
    /\ outcome' = [outcome EXCEPT ![w] = <<>>]
    /\ iteration' = [iteration EXCEPT ![w] = 0]
    /\ messages' = [messages EXCEPT ![w] = <<>>]
    /\ final_response' = [final_response EXCEPT ![w] = <<>>]
    /\ calls' = [calls EXCEPT ![w] = <<>>]
    /\ toolCalls' = [toolCalls EXCEPT ![w] = <<>>]

\* What one call of mark_task_* leaves unchanged.
MarkFrame ==
    /\ UNCHANGED <<nextId, daemons, max_iterations, logs, pushed>>
    /\ UNCHANGED faultVars
    /\ UNCHANGED backendVars
    /\ UNCHANGED toolVars
    /\ UNCHANGED sigint

\* mark_task_completed gone wrong: one active list shared by the workers
MarkTaskCompletedSharedActive(w) ==
    /\ pc[w] = "returned"
    /\ IF store = "up"
       THEN LET completed_task == CompletedTask(task[w], outcome[w], w) IN
            /\ active' = [v \in Workers |-> RPop(active[v])]
            /\ completed' = completed \cup {completed_task}
            /\ taskData' = [taskData EXCEPT ![task[w].id] = <<completed_task>>]
            /\ published' = published \cup {<<"task_completed", w, task[w].id>>}
       ELSE UNCHANGED <<active, completed, taskData, published>>
    /\ BackToPoll(w)
    /\ UNCHANGED <<queue, failed>>
    /\ MarkFrame

\* run gone wrong: mark_task_completed raises after it wrote the record, so
\* the except clause of run calls mark_task_failed for the same task
MarkTaskCompletedThenRaises(w) ==
    /\ pc[w] = "returned"
    /\ IF store = "up"
       THEN LET completed_task == CompletedTask(task[w], outcome[w], w) IN
            /\ active' = [active EXCEPT ![w] = RPop(@)]
            /\ completed' = completed \cup {completed_task}
            /\ taskData' = [taskData EXCEPT ![task[w].id] = <<completed_task>>]
            /\ published' = published \cup {<<"task_completed", w, task[w].id>>}
       ELSE UNCHANGED <<active, completed, taskData, published>>
    /\ pc' = [pc EXCEPT ![w] = "raised"]
    /\ UNCHANGED <<task, outcome>>
    /\ UNCHANGED loopVars
    /\ UNCHANGED <<queue, failed>>
    /\ MarkFrame

MarkTaskCompleted(w) ==
    /\ pc[w] = "returned"
    /\ IF store = "up"
       THEN LET completed_task == CompletedTask(task[w], outcome[w], w) IN
            /\ active' = [active EXCEPT ![w] = RPop(@)]
            /\ completed' = completed \cup {completed_task}
            /\ taskData' = [taskData EXCEPT ![task[w].id] = <<completed_task>>]
            /\ published' = published \cup {<<"task_completed", w, task[w].id>>}
       ELSE \* rpop raises RedisError: logged, the method returns
            UNCHANGED <<active, completed, taskData, published>>
    /\ BackToPoll(w)
    /\ UNCHANGED <<queue, failed>>
    /\ MarkFrame

\* mark_task_failed gone wrong: the failed task is pushed back for a retry
MarkTaskFailedRequeues(w) ==
    /\ pc[w] = "raised"
    /\ LET failed_task == FailedTask(task[w], outcome[w], w) IN
       /\ active' = [active EXCEPT ![w] = RPop(@)]
       /\ queue' = [queue EXCEPT ![w] = LPush(@, Payload("json", task[w].id))]
       /\ failed' = failed \cup {failed_task}
       /\ taskData' = [taskData EXCEPT ![task[w].id] = <<failed_task>>]
       /\ published' = published \cup {<<"task_failed", w, task[w].id>>}
    /\ BackToPoll(w)
    /\ UNCHANGED completed
    /\ MarkFrame

MarkTaskFailed(w) ==
    /\ pc[w] = "raised"
    /\ IF store = "up"
       THEN LET failed_task == FailedTask(task[w], outcome[w], w) IN
            /\ active' = [active EXCEPT ![w] = RPop(@)]
            /\ failed' = failed \cup {failed_task}
            /\ taskData' = [taskData EXCEPT ![task[w].id] = <<failed_task>>]
            /\ published' = published \cup {<<"task_failed", w, task[w].id>>}
       ELSE \* rpop raises RedisError: logged, the method returns
            UNCHANGED <<active, failed, taskData, published>>
    /\ BackToPoll(w)
    /\ UNCHANGED <<queue, completed>>
    /\ MarkFrame

Next ==
    \/ \E w \in daemons, kind \in PayloadKinds : Enqueue(w, kind)
    \/ \E w \in daemons : DequeueTask(w)
    \/ \E w \in daemons : Sleep(w)
    \/ \E w \in daemons : ExecuteTaskBegin(w)
    \/ \E w \in daemons : LoopIteration(w)
    \/ \E w \in daemons : CapCheck(w)
    \/ \E w \in daemons : MarkTaskCompleted(w)
    \/ \E w \in daemons : MarkTaskFailed(w)

Spec == Init /\ [][Next]_vars

(***************************************************************************)
(* The store becomes unreachable and comes back.  While it is down every   *)
(* Redis command raises redis.RedisError: dequeue_task and mark_task_*     *)
(* log it and return, log_activity logs it and returns.                    *)
(***************************************************************************)
StoreFails ==
    /\ store = "up"
    /\ faults < MaxFaults
    /\ store' = "down"
    /\ faults' = faults + 1
    /\ UNCHANGED storeVars
    /\ UNCHANGED loopVars
    /\ UNCHANGED backendVars
    /\ UNCHANGED toolVars
    /\ UNCHANGED sigint
    /\ UNCHANGED <<nextId, daemons, max_iterations, pc, task, outcome, logs,
                   pushed, stranded>>

StoreRecovers ==
    /\ store = "down"
    /\ store' = "up"
    /\ UNCHANGED storeVars
    /\ UNCHANGED loopVars
    /\ UNCHANGED backendVars
    /\ UNCHANGED toolVars
    /\ UNCHANGED sigint
    /\ UNCHANGED <<nextId, daemons, max_iterations, pc, task, outcome, logs,
                   pushed, stranded, faults>>

\* mark_task_completed / mark_task_failed when the store goes down after
\* the first done of its commands (rpop, zadd, hset; publish is the last):
\* the RedisError is logged and the method returns.
MarkTaskInterrupted(w, done) ==
    /\ pc[w] \in {"returned", "raised"}
    /\ store = "up"
    /\ faults < MaxFaults
    /\ LET record == IF pc[w] = "returned"
                      THEN CompletedTask(task[w], outcome[w], w)
                      ELSE FailedTask(task[w], outcome[w], w)
       IN  /\ active' = [active EXCEPT ![w] = RPop(@)]
           /\ completed' = IF done >= 2 /\ pc[w] = "returned"
                            THEN completed \cup {record} ELSE completed
           /\ failed' = IF done >= 2 /\ pc[w] = "raised"
                         THEN failed \cup {record} ELSE failed
           /\ taskData' = IF done >= 3
                           THEN [taskData EXCEPT ![task[w].id] = <<record>>]
                           ELSE taskData
    /\ store' = "down"
    /\ faults' = faults + 1
    /\ BackToPoll(w)
    /\ UNCHANGED backendVars
    /\ UNCHANGED toolVars
    /\ UNCHANGED sigint
    /\ UNCHANGED <<queue, published, nextId, daemons, max_iterations, logs,
                   pushed, stranded>>

\* The daemons on well-formed tasks, with a store that may fail.
NextFaults ==
    \/ \E w \in daemons : Enqueue(w, "json")
    \/ \E w \in daemons : DequeueTask(w)
    \/ \E w \in daemons : Sleep(w)
    \/ \E w \in daemons : ExecuteTaskBegin(w)
    \/ \E w \in daemons : LoopIteration(w)
    \/ \E w \in daemons : CapCheck(w)
    \/ \E w \in daemons : MarkTaskCompleted(w)
    \/ \E w \in daemons : MarkTaskFailed(w)
    \/ StoreFails
    \/ StoreRecovers
    \/ \E w \in daemons, done \in 1..3 : MarkTaskInterrupted(w, done)

\* Daemons configured with a MAX_ITERATIONS of one or two calls.
InitFaults ==
    /\ Init
    /\ \A w \in daemons : max_iterations[w] \in 1..2

SpecFaults == InitFaults /\ [][NextFaults]_vars

\* The steps of the daemons' own code.
DaemonNext ==
    \E w \in daemons :
        \/ DequeueTask(w)
        \/ Sleep(w)
        \/ ExecuteTaskBegin(w)
        \/ LoopIteration(w)
        \/ CapCheck(w)
        \/ MarkTaskCompleted(w)
        \/ MarkTaskFailed(w)

\* The daemon process keeps running (run is a "while True" loop whose every
\* call returns), and a store that is down comes back.
FairSpecFaults ==
    /\ InitFaults
    /\ [][NextFaults]_vars
    /\ WF_vars(DaemonNext)
    /\ WF_vars(StoreRecovers)

\* The same with a store that stays reachable: the daemon keeps running,
\* every backend call and every tool execution returns.
FairSpec == Init /\ [][Next]_vars /\ WF_vars(DaemonNext)

(***************************************************************************)
(* HiveWorkerDaemon.__init__ as called by main, and the death of the       *)
(* daemon process.                                                         *)
(***************************************************************************)
\* main: HiveWorkerDaemon() then run(); sys.exit(1) when create_backend
\* raises or exits, or when the store does not answer the ping.
CreateDaemon(w) ==
    /\ pc[w] = "init"
    /\ LET made == CreateBackend(env) IN
       IF made.kind = "backend" /\ store = "up"
       THEN /\ backend' = [backend EXCEPT ![w] = made.name]
            /\ pc' = [pc EXCEPT ![w] = "poll"]
       ELSE /\ backend' = [backend EXCEPT ![w] = "none"]
            /\ pc' = [pc EXCEPT ![w] = "exited"]
    /\ UNCHANGED storeVars
    /\ UNCHANGED loopVars
    /\ UNCHANGED faultVars
    /\ UNCHANGED <<nextId, daemons, max_iterations, task, outcome, logs,
                   pushed, env, reply, normalized>>
    /\ UNCHANGED toolVars
    /\ UNCHANGED sigint

\* The process of daemon w is killed while it holds a task, and is started
\* again: its locals are gone, the store is as it was.
Crash(w) ==
    /\ pc[w] \in {"dequeued", "loop", "check", "returned", "raised"}
    /\ Cardinality(stranded) < MaxCrashes
    /\ stranded' = stranded \cup {task[w].id}
    /\ pc' = [pc EXCEPT ![w] = "init"]
    /\ task' = [task EXCEPT ![w] = NoTask]
    /\ outcome' = [outcome EXCEPT ![w] = <<>>]
    /\ iteration' = [iteration EXCEPT ![w] = 0]
    /\ messages' = [messages EXCEPT ![w] = <<>>]
    /\ final_response' = [final_response EXCEPT ![w] = <<>>]
    /\ calls' = [calls EXCEPT ![w] = <<>>]
    /\ toolCalls' = [toolCalls EXCEPT ![w] = <<>>]
    /\ backend' = [backend EXCEPT ![w] = "none"]
    /\ UNCHANGED storeVars
    /\ UNCHANGED <<nextId, daemons, max_iterations, logs, pushed, store,
                   faults, env, reply, normalized>>
    /\ UNCHANGED toolVars
    /\ UNCHANGED sigint

NextCrash ==
    \/ Next
    \/ \E w \in daemons : Crash(w)
    \/ \E w \in daemons : CreateDaemon(w)

SpecCrash == Init /\ [][NextCrash]_vars

(***************************************************************************)
(* SIGINT sent to the daemon process (main runs run under asyncio.run).    *)
(* What the signal does depends on the interpreter the daemon runs on.     *)
(* From Python 3.11 on asyncio.run installs a handler that, on the first   *)
(* signal, requests the cancellation of the main task and returns: the     *)
(* running code goes on and CancelledError is delivered at the next await  *)
(* that suspends, which in run is asyncio.sleep ("await execute_task"      *)
(* does not suspend, execute_task awaits nothing).  On a second signal,    *)
(* and on every signal before Python 3.11, the handler raises              *)
(* KeyboardInterrupt in the code the main thread is executing:             *)
(* execute_task's "except Exception" does not catch it, run's "except      *)
(* KeyboardInterrupt: break" does, and the process ends.                   *)
(***************************************************************************)
Interrupt(w) ==
    /\ pc[w] \in {"poll", "sleep", "dequeued", "loop", "check", "returned",
                  "raised"}
    /\ \/ /\ sigint[w] = "none"
          /\ sigint' = [sigint EXCEPT ![w] = "pending"]
          /\ UNCHANGED pc
       \/ /\ sigint' = [sigint EXCEPT ![w] = "raised"]
          /\ pc' = [pc EXCEPT ![w] = "stopped"]
    /\ UNCHANGED storeVars
    /\ UNCHANGED loopVars
    /\ UNCHANGED faultVars
    /\ UNCHANGED backendVars
    /\ UNCHANGED toolVars
    /\ UNCHANGED <<nextId, daemons, max_iterations, task, outcome, logs, pushed>>

NextInterrupt ==
    \/ Next
    \/ \E w \in daemons : Interrupt(w)

SpecInterrupt == Init /\ [][NextInterrupt]_vars

(***************************************************************************)
(* Several daemons, one per worker identity, on the same store: each has   *)
(* its own hive:queue:<agent_id> and hive:active:<agent_id> and they share *)
(* hive:completed and hive:failed.  Their steps interleave freely.         *)
(***************************************************************************)
InitWorkers ==
    /\ InitStore
    /\ InitDaemons
    /\ daemons = Workers
    /\ max_iterations = [w \in Workers |-> IF w = "drone-1" THEN 2 ELSE 1]
    /\ env = BedrockEnv
    /\ backend = [w \in Workers |-> "bedrock"]
    /\ reply = <<>>
    /\ normalized = <<>>
    /\ NoToolUse
    /\ sigint = [w \in Workers |-> "none"]

\* The clients push well-formed payloads onto either queue.
NextWorkers ==
    \/ \E w \in daemons : Enqueue(w, "json")
    \/ \E w \in daemons : DequeueTask(w)
    \/ \E w \in daemons : Sleep(w)
    \/ \E w \in daemons : ExecuteTaskBegin(w)
    \/ \E w \in daemons : LoopIteration(w)
    \/ \E w \in daemons : CapCheck(w)
    \/ \E w \in daemons : MarkTaskCompleted(w)
    \/ \E w \in daemons : MarkTaskFailed(w)

SpecWorkers == InitWorkers /\ [][NextWorkers]_vars

\* The daemon is started in any environment; clients push meanwhile.
InitStartup ==
    /\ InitStore
    /\ InitLocals
    /\ pc = [w \in Workers |-> "init"]
    /\ daemons = {"drone-1"}
    /\ max_iterations = [w \in Workers |->
                             IF w \in daemons THEN MaxIterationsCap ELSE 0]
    /\ env \in Envs
    /\ backend = [w \in Workers |-> "none"]
    /\ reply = <<>>
    /\ normalized = <<>>
    /\ NoToolUse
    /\ sigint = [w \in Workers |-> "none"]

NextStartup ==
    \/ \E w \in daemons : CreateDaemon(w)
    \/ \E w \in daemons, kind \in PayloadKinds : Enqueue(w, kind)
    \/ \E w \in daemons : DequeueTask(w)
    \/ \E w \in daemons : Sleep(w)

SpecStartup == InitStartup /\ [][NextStartup]_vars

(***************************************************************************)
(* send_message on its own: a daemon constructed with one of the three     *)
(* variants calls self.backend.send_message, the model side hands over a   *)
(* reply, and the normalized response (or the exception) is kept.          *)
(***************************************************************************)
APIEnv ==
    [BedrockEnv EXCEPT !.HIVE_CLAUDE_BACKEND = None,
                       !.ANTHROPIC_API_KEY = "sk-key",
                       !.anthropic_sdk = TRUE]
CLIEnv ==
    [BedrockEnv EXCEPT !.HIVE_CLAUDE_BACKEND = None,
                       !.CLAUDE_CODE_OAUTH_TOKEN = "token",
                       !.claude_cli = "ok"]

InitSendMessage ==
    /\ InitStore
    /\ InitLocals
    /\ pc = [w \in Workers |-> "poll"]
    /\ daemons = {"drone-1"}
    /\ max_iterations = [w \in Workers |->
                             IF w \in daemons THEN MaxIterationsCap ELSE 0]
    /\ env \in {APIEnv, BedrockEnv, CLIEnv}
    /\ backend = [w \in Workers |->
                      IF w \in daemons THEN CreateBackend(env).name ELSE "none"]
    /\ \E r \in RepliesOf(CreateBackend(env).name) : reply = <<r>>
    /\ normalized = <<>>
    /\ NoToolUse
    /\ sigint = [w \in Workers |-> "none"]

\* response = self.backend.send_message(...)
SendMessage(w) ==
    /\ reply # <<>>
    /\ normalized = <<>>
    /\ normalized' = <<SendMessageOf(backend[w], reply[1])>>
    /\ UNCHANGED storeVars
    /\ UNCHANGED loopVars
    /\ UNCHANGED faultVars
    /\ UNCHANGED <<nextId, daemons, max_iterations, task, outcome, logs,
                   pushed, pc, env, backend, reply>>
    /\ UNCHANGED toolVars
    /\ UNCHANGED sigint

\* The next call of send_message: the model side produces another reply.
NextReply(w) ==
    /\ normalized # <<>>
    /\ \E r \in RepliesOf(backend[w]) : reply' = <<r>>
    /\ normalized' = <<>>
    /\ UNCHANGED storeVars
    /\ UNCHANGED loopVars
    /\ UNCHANGED faultVars
    /\ UNCHANGED <<nextId, daemons, max_iterations, task, outcome, logs,
                   pushed, pc, env, backend>>
    /\ UNCHANGED toolVars
    /\ UNCHANGED sigint

NextSendMessage ==
    \/ \E w \in daemons : SendMessage(w)
    \/ \E w \in daemons : NextReply(w)

SpecSendMessage == InitSendMessage /\ [][NextSendMessage]_vars

(***************************************************************************)
(* The tools on their own: one pass of the body of execute_task's for      *)
(* loop, for a tool_use block the model supplied, on a workspace and a     *)
(* store that hold some files and some tasks.                              *)
(***************************************************************************)
\* The workspace the tools act on.
Workspace ==
    [files |-> files, agent_id |-> agent_id, commands |-> commands,
     queue |-> queue, active |-> active, completed |-> completed,
     failed |-> failed, nextId |-> nextId]

\* The characters of file contents and of the strings of an edit.
Chars == {"a", "b"}

\* Tool inputs the model can supply: JSON of the right and of a wrong type.
EditInputs ==
    { [file_path |-> JStr("f"), old_string |-> JStr(old),
       new_string |-> JStr(new), replace_all |-> JBool(all)] :
      old \in SeqUpTo(Chars, MaxOldLen),
      new \in {<<>>, <<"b">>, <<"a", "a">>},
      all \in {"true", "false"} }
    \cup { [file_path |-> JStr("f"), old_string |-> JStr(<<"a">>),
            new_string |-> JStr(<<"b">>)],
           [file_path |-> JStr("missing"), old_string |-> JStr(<<"a">>),
            new_string |-> JStr(<<"b">>)],
           [file_path |-> JNum("5"), old_string |-> JStr(<<"a">>),
            new_string |-> JStr(<<"b">>)],
           [file_path |-> JStr("f"), old_string |-> JNum("5"),
            new_string |-> JStr(<<"b">>)],
           [file_path |-> JStr("f"), old_string |-> JStr(<<"a">>),
            new_string |-> JNum("5")] }

GrepInputs ==
    { [pattern |-> JStr(pattern), path |-> JStr(path)] :
      pattern \in {"a", "("}, path \in {"f", "src", "many", "late", "missing"} }
    \cup { [pattern |-> JNum("5"), path |-> JStr("src")],
           [pattern |-> JStr("a"), path |-> JNum("5")],
           [pattern |-> JStr("("), path |-> JNum("5")],
           [pattern |-> JStr("a"), path |-> JStr("src"), glob |-> JNum("5")] }

ToolInputs(name) ==
    CASE name = "edit" -> EditInputs
      [] name = "grep" -> GrepInputs
      [] name = "glob" ->
             { [pattern |-> JStr("*"), path |-> JStr(path)] :
               path \in {"src", "many", "missing"} }
             \cup { [pattern |-> JStr("*"), path |-> JNum("5")] }
      [] name = "read" ->
             { [file_path |-> JStr("f")], [file_path |-> JStr("missing")],
               [file_path |-> JNum("5")] }
      [] name = "write" ->
             { [file_path |-> JStr("f"), content |-> JStr(<<"b">>)],
               [file_path |-> JNum("5"), content |-> JStr(<<"b">>)],
               [file_path |-> JStr("f"), content |-> JNum("5")] }
      [] name = "bash" ->
             { [command |-> JStr("true")], [command |-> JStr("sleep 999")] }
      [] name = "hive_assign" ->
             { [drone_id |-> JStr("drone-2")], [drone_id |-> JStr("nobody")] }
      [] OTHER -> { [result |-> JStr("done")] }

ToolNames ==
    {"read", "edit", "write", "bash", "grep", "glob", "hive_assign",
     "hive_status", "hive_failed", "hive_config", "hive_my_tasks",
     "hive_take_task", "hive_task_done", "hive_task_failed", "deploy"}

ToolUseBlocks ==
    UNION { { ToolUseBlock("tu1", name, input) : input \in ToolInputs(name) } :
            name \in ToolNames }

InitTools ==
    /\ InitLocals
    /\ pc = [w \in Workers |-> "poll"]
    /\ daemons = {"drone-1"}
    /\ max_iterations = [w \in Workers |->
                             IF w \in daemons THEN MaxIterationsCap ELSE 0]
    /\ env = BedrockEnv
    /\ backend = [w \in Workers |-> IF w \in daemons THEN "bedrock" ELSE "none"]
    /\ reply = <<>>
    /\ normalized = <<>>
    /\ sigint = [w \in Workers |-> "none"]
    /\ \E held \in 0..1, queued \in 0..MaxPayloads :
          /\ held + queued <= MaxPayloads
          /\ active = [w \in Workers |->
                          IF w = "drone-1" /\ held = 1
                          THEN <<Payload("json", 1)>> ELSE <<>>]
          /\ queue = [w \in Workers |->
                         IF w = "drone-1"
                         THEN [i \in 1..queued |->
                                  Payload("json", held + queued + 1 - i)]
                         ELSE <<>>]
          /\ nextId = held + queued + 1
          /\ pushed = [i \in 1..MaxPayloads |->
                          IF i <= held + queued THEN "json" ELSE ""]
    /\ completed = {}
    /\ failed = {}
    /\ taskData = [i \in 1..MaxPayloads |-> <<>>]
    /\ published = {}
    /\ logs = [k \in LogKeys |-> <<>>]
    /\ store = "up"
    /\ faults = 0
    /\ files \in [ExistingFiles -> SeqUpTo(Chars, MaxContent)]
    /\ agent_id \in {"", "drone-1"}
    /\ \E block \in ToolUseBlocks : tool_use = <<block>>
    /\ tool_result = <<>>
    /\ commands = <<>>

\* execute_task, the body of the for loop for the block tool_use: the tool
\* is executed and its result formatted; an exception other than
\* ToolExecutionError leaves the loop with no tool_result block.
ExecuteToolUse ==
    /\ tool_use # <<>>
    /\ tool_result = <<>>
    /\ LET call == ToolCall(tool_use[1])
           done == ExecuteToolOn(Workspace, call.name, call.input)
       IN  /\ tool_result' =
                  <<[out |-> done.out, opened |-> done.opened,
                     block |-> IF done.out.kind \in {"return", "ToolExecutionError"}
                               THEN <<ToolResultBlock(call.id, done.out)>>
                               ELSE <<>>]>>
           /\ files' = done.ws.files
           /\ commands' = done.ws.commands
           /\ queue' = done.ws.queue
           /\ active' = done.ws.active
           /\ completed' = done.ws.completed
           /\ failed' = done.ws.failed
           /\ nextId' = done.ws.nextId
    /\ pushed' = [i \in 1..MaxPayloads |->
                      IF i < nextId' /\ pushed[i] = "" THEN "json" ELSE pushed[i]]
    /\ UNCHANGED loopVars
    /\ UNCHANGED faultVars
    /\ UNCHANGED backendVars
    /\ UNCHANGED <<taskData, published, daemons, max_iterations, pc, task,
                   outcome, logs, agent_id, tool_use, sigint>>

NextTools == ExecuteToolUse

SpecTools == InitTools /\ [][NextTools]_vars

(***************************************************************************)
(* Vocabulary of the properties.                                           *)
(***************************************************************************)
Last(s) == s[Len(s)]

\* The queue payload task t was parsed from.
TaskPayload(t) == Payload("json", t.id)
InQueue(w, p) == p \in Range(queue[w])
InActive(w, p) == p \in Range(active[w])

\* Daemon w is executing, or has just executed, a task.
HasTask(w) == pc[w] \in {"dequeued", "loop", "check", "returned", "raised"}
\* execute_task of daemon w has ended: it returned or raised.
Ended(w) == pc[w] \in {"returned", "raised"}

\* The step is run's call of mark_task_completed / mark_task_failed by w.
MarkStep(w) == Ended(w) /\ pc'[w] = "poll"

BudgetError == ExecutionFailed(MaxIterationsReached)

\* Some backend call of the current task returned end_turn.
EndTurnReturned(w) == \E i \in DOMAIN calls[w] : calls[w][i] = "end_turn"

\* The tool_use blocks of a content, in order, and their ids.
RECURSIVE ToolUses(_)
ToolUses(content) ==
    IF content = <<>> THEN <<>>
    ELSE (IF Head(content).type = "tool_use" THEN <<Head(content)>> ELSE <<>>)
         \o ToolUses(Tail(content))
ToolUseIds(content) == [j \in DOMAIN ToolUses(content) |-> ToolUses(content)[j].id]

(***************************************************************************)
(* C1.  In every reachable state the active list of a worker holds zero or *)
(* one entry, and no payload is in both the worker's queue and its active  *)
(* list.                                                                   *)
(***************************************************************************)
C1_ActiveSlotHoldsAtMostOne ==
    \A w \in Workers :
        /\ Len(active[w]) <= 1
        /\ Range(queue[w]) \cap Range(active[w]) = {}

(***************************************************************************)
(* C2.  When every one of the max_iterations backend calls of a task       *)
(* returned tool_use and every tool_use turn was completed, execute_task   *)
(* raises the iteration-budget error, and run's mark_task_failed records   *)
(* the task in the failed collection with that error text and leaves the   *)
(* task out of the worker's active list.                                   *)
(***************************************************************************)
CapExhausted(w) ==
    /\ Ended(w)
    /\ max_iterations[w] >= 1
    /\ Len(calls[w]) = max_iterations[w]
    /\ \A i \in DOMAIN calls[w] : calls[w][i] = "tool_use"
    /\ Len(messages[w]) = 2 * max_iterations[w] + 1

C2_CapExhaustedFailsAndClearsActive ==
    [][\A w \in Workers :
          (CapExhausted(w) /\ MarkStep(w)) =>
              /\ pc[w] = "raised"
              /\ outcome[w] = BudgetError
              /\ FailedTask(task[w], BudgetError, w) \in failed'
              /\ TaskPayload(task[w]) \notin Range(active'[w])
      ]_vars

(***************************************************************************)
(* C3.  Once execute_task has ended: if some backend call within the cap   *)
(* returned end_turn, it returned (done) with the concatenated text (the   *)
(* no-summary text standing in for an empty one), and it raised the        *)
(* iteration-budget error only if no call returned end_turn.               *)
(***************************************************************************)
C3_EndTurnWithinCapCompletes ==
    \A w \in Workers :
        Ended(w) =>
            /\ EndTurnReturned(w) =>
                   /\ pc[w] = "returned"
                   /\ outcome[w] \in {ConcatText(Last(messages[w]).content),
                                      NoSummary}
            /\ (pc[w] = "raised" /\ outcome[w] = BudgetError) =>
                   ~EndTurnReturned(w)

(***************************************************************************)
(* C4.  In the conversation every assistant message that is followed by a  *)
(* message is followed by a user message holding exactly one tool_result   *)
(* per tool_use block of the assistant message, in the same order, each    *)
(* with the tool_use_id of its block; and, unless a tool raised something  *)
(* other than ToolExecutionError, the tools executed for the task are      *)
(* exactly the tool_use blocks of the answered assistant messages, in      *)
(* order (two calls for tool_use, tool_use, end_turn with one block each). *)
(***************************************************************************)
\* The tool_result blocks answer the tool_use blocks of content one to one.
Answers(results, content) ==
    /\ Len(results) = Len(ToolUseIds(content))
    /\ \A j \in DOMAIN results :
           /\ results[j].type = "tool_result"
           /\ results[j].tool_use_id = ToolUseIds(content)[j]

\* Ids of the tool_use blocks of the assistant messages that were answered.
RECURSIVE AnsweredIds(_)
AnsweredIds(msgs) ==
    IF Len(msgs) < 2 THEN <<>>
    ELSE (IF Head(msgs).role = "assistant" THEN ToolUseIds(Head(msgs).content)
                                           ELSE <<>>)
         \o AnsweredIds(Tail(msgs))

\* A tool of the current turn raised something other than ToolExecutionError.
ToolCrashed(w) ==
    /\ pc[w] = "raised"
    /\ calls[w] # <<>>
    /\ Last(calls[w]) = "tool_use"
    /\ Last(messages[w]).role = "assistant"

C5_FirstCallEndTurnReturnsText ==
    \A w \in Workers :
        ( /\ Ended(w)
          /\ calls[w] = <<"end_turn">>
          /\ ToolUses(Last(messages[w]).content) = <<>> ) =>
            /\ pc[w] = "returned"
            /\ ConcatText(Last(messages[w]).content) # <<>> =>
                   outcome[w] = ConcatText(Last(messages[w]).content)
            /\ toolCalls[w] = <<>>

(***************************************************************************)
(* C6.  A ToolExecutionError does not fail the task: in every answered     *)
(* tool_use turn each tool_use block whose execution raises                *)
(* ToolExecutionError has its own tool_result, flagged is_error and        *)
(* carrying the message, every tool_use block of the turn has a result,    *)
(* after the turn the loop is back at its guard, and a task whose last     *)
(* call returned tool_use has failed only on the iteration budget or on an *)
(* exception other than ToolExecutionError.                                *)
(***************************************************************************)
IsError(block) == "is_error" \in DOMAIN block /\ block.is_error

\* Block b raises ToolExecutionError when executed.
Fails(b) == ExecuteTool(b.name, b.input).kind = "ToolExecutionError"
\* Block b raises something else when executed.
Crashes(b) == ExecuteTool(b.name, b.input).kind \notin {"return", "ToolExecutionError"}

ErrorResults(results, content) ==
    /\ Len(results) = Len(ToolUses(content))
    /\ \A j \in DOMAIN results :
           LET b == ToolUses(content)[j] IN
           /\ IsError(results[j]) <=> Fails(b)
           /\ Fails(b) => results[j].content =
                  <<"Error: ">> \o ExecuteTool(b.name, b.input).value

C6_ToolErrorDoesNotFailTask ==
    \A w \in Workers :
        /\ \A i \in 2..(Len(messages[w]) - 1) :
               messages[w][i].role = "assistant" =>
                   ErrorResults(messages[w][i + 1].content, messages[w][i].content)
        /\ ( /\ Len(messages[w]) > 1
              /\ Last(messages[w]).role = "user"
              /\ Last(calls[w]) = "tool_use" ) =>
               \/ pc[w] = "loop"
               \/ pc[w] = "raised" /\ outcome[w] = BudgetError
                               /\ iteration[w] >= max_iterations[w]
        /\ ToolCrashed(w) =>
               \E j \in DOMAIN ToolUses(Last(messages[w]).content) :
                   Crashes(ToolUses(Last(messages[w]).content)[j])

\* A turn with a failed tool was answered and a later backend call was made.
C6_Witness ==
    \E w \in Workers :
        /\ Len(messages[w]) >= 4
        /\ messages[w][3].role = "user"
        /\ Len(messages[w][3].content) = 2
        /\ IsError(messages[w][3].content[1])
        /\ ~IsError(messages[w][3].content[2])
        /\ Len(calls[w]) = 2

(***************************************************************************)
(* C7.  When a backend call of a task raised, no further backend call and  *)
(* no tool execution happens for the task, and run's mark_task_failed      *)
(* records the task in the failed collection with the error text, leaves   *)
(* it out of the active list, and is back at the poll point.               *)
(***************************************************************************)
BackendRaised(w) == HasTask(w) /\ calls[w] # <<>> /\ Last(calls[w]) = "raise"

C7_BackendErrorFailsTask ==
    [][\A w \in Workers :
          BackendRaised(w) =>
              /\ pc[w] = "raised"
              /\ \/ UNCHANGED <<pc[w], calls[w], toolCalls[w], active, failed>>
                 \/ /\ pc'[w] = "poll"
                    /\ FailedTask(task[w], outcome[w], w) \in failed'
                    /\ TaskPayload(task[w]) \notin Range(active'[w])
      ]_vars

(***************************************************************************)
(* C8.  When a backend response has a stop_reason other than end_turn and  *)
(* tool_use, execute_task has raised, no tool of that response is          *)
(* executed, no further backend call or tool execution follows, and the    *)
(* only step the daemon takes is mark_task_failed: the task gets a record  *)
(* in the failed collection and none in the completed collection.          *)
(***************************************************************************)
UnexpectedStop(w) ==
    /\ HasTask(w)
    /\ calls[w] # <<>>
    /\ Last(calls[w]) \notin {"end_turn", "tool_use", "raise"}

C8_UnexpectedStopReasonFails ==
    [][\A w \in Workers :
          UnexpectedStop(w) =>
              /\ pc[w] = "raised"
              /\ toolCalls[w] = AnsweredIds(messages[w])
              /\ \/ UNCHANGED <<pc[w], calls[w], toolCalls[w], completed, failed>>
                 \/ /\ pc'[w] = "poll"
                    /\ FailedTask(task[w], outcome[w], w) \in failed'
                    /\ \A r \in completed' : r.id # task[w].id
      ]_vars

C8_Witness ==
    \E w \in Workers, r \in failed :
        /\ r.worker = w
        /\ r.error = ExecutionFailed(<<"'dict' object has no attribute 'stop_reason'">>)
        /\ pc[w] = "poll"

(***************************************************************************)
(* C9.  A task moves queued -> active -> completed or failed only: a       *)
(* payload in an active list is never put into a queue, a task enters an   *)
(* active list only from the queue of the same worker, a task gets its     *)
(* first terminal record only while it is in an active list, and once a    *)
(* task has a terminal record its terminal records and per-task data never *)
(* change again and it is never put into a queue or an active list.        *)
(***************************************************************************)
TaskIds == 1..MaxPayloads
TerminalRecords(done, lost, id) == {r \in done \cup lost : r.id = id}

AllPayloads == {Payload(kind, id) : kind \in PayloadKinds, id \in TaskIds}

C10_DequeueIsOneAtomicMove ==
    /\ [](\A w \in Workers : Range(queue[w]) \cap Range(active[w]) = {})
    /\ [][\A w \in Workers, p \in AllPayloads :
             (p \in Range(queue[w]) /\ p \notin Range(queue'[w])) =>
                 /\ p = Tail_(queue[w])
                 /\ queue'[w] = SubSeq(queue[w], 1, Len(queue[w]) - 1)
                 /\ active'[w] = <<p>> \o active[w]
         ]_vars

\* A payload was moved while the clients had pushed others behind it.
C10_Witness ==
    \E w \in Workers :
        /\ pc[w] = "dequeued"
        /\ active[w] # <<>>
        /\ TaskPayload(task[w]) = Head(active[w])
        /\ queue[w] # <<>>

(***************************************************************************)
(* C11.  When the worker's queue is empty, the step in which the daemon    *)
(* calls dequeue_task gets no task (run goes to its sleep) and leaves the  *)
(* queue, the active list, the completed and failed collections and the    *)
(* per-task records unchanged.                                             *)
(***************************************************************************)
\* The step is a step of daemon w's own code.
DaemonStep(w) == pc'[w] # pc[w]

C11_EmptyDequeueChangesNothing ==
    [][\A w \in Workers :
          (pc[w] = "poll" /\ queue[w] = <<>> /\ DaemonStep(w)) =>
              /\ pc'[w] = "sleep"
              /\ task'[w] = NoTask
              /\ UNCHANGED <<queue, active, completed, failed, taskData>>
      ]_vars

\* The only task ever pushed was completed, and the next poll found nothing.
C11_Witness ==
    \E w \in Workers :
        /\ pc[w] = "sleep"
        /\ nextId = 2
        /\ completed # {}
        /\ queue[w] = <<>>
        /\ active[w] = <<>>

(***************************************************************************)
(* C12.  A payload that is not valid JSON is skipped: it never becomes the *)
(* task a daemon executes, it never has a record in the completed or the   *)
(* failed collection or under a per-task key, once it has left the queue   *)
(* it is never put into a queue again, and the dequeue that takes it       *)
(* leaves the daemon in run's poll loop (asleep until the next poll), from *)
(* where the following queue elements are dequeued.                        *)
(***************************************************************************)
C12_MalformedPayloadIsSkipped ==
    /\ [](\A id \in TaskIds :
            pushed[id] = "garbage" =>
                /\ \A w \in Workers : task[w].id # id
                /\ TerminalRecords(completed, failed, id) = {}
                /\ taskData[id] = <<>>)
    /\ [][\A w \in Workers, id \in TaskIds :
             pushed[id] = "garbage" =>
                 LET p == Payload("garbage", id) IN
                 /\ p \notin Range(queue[w]) => p \notin Range(queue'[w])
                 /\ ( /\ pc[w] = "poll"
                      /\ queue[w] # <<>>
                      /\ Tail_(queue[w]) = p
                      /\ DaemonStep(w) ) =>
                        /\ pc'[w] = "sleep"
                        /\ task'[w] = NoTask
                        /\ queue'[w] = RPop(queue[w])
         ]_vars

\* An unparsable payload was skipped and the task pushed behind it runs.
C12_Witness ==
    \E w \in Workers :
        /\ pushed[1] = "garbage"
        /\ task[w].id = 2
        /\ pc[w] = "loop"
        /\ iteration[w] >= 1

(***************************************************************************)
(* C13.  When run calls mark_task_completed with the result execute_task   *)
(* returned, afterwards the task is not in the worker's active list, the   *)
(* record (the task merged with status completed, the result and the       *)
(* worker identity) is in the completed collection and under the per-task  *)
(* key, and task_completed:<worker>:<id> has been published; when          *)
(* execute_task raised, the same with status failed and the error text in  *)
(* the failed collection, and a task_failed event.                         *)
(***************************************************************************)
C13_TerminalTransitionRecordsTask ==
    [][\A w \in Workers :
          MarkStep(w) =>
              LET id == task[w].id IN
              /\ TaskPayload(task[w]) \notin Range(active'[w])
              /\ pc[w] = "returned" =>
                     /\ CompletedTask(task[w], outcome[w], w) \in completed'
                     /\ taskData'[id] = <<CompletedTask(task[w], outcome[w], w)>>
                     /\ <<"task_completed", w, id>> \in published'
              /\ pc[w] = "raised" =>
                     /\ FailedTask(task[w], outcome[w], w) \in failed'
                     /\ taskData'[id] = <<FailedTask(task[w], outcome[w], w)>>
                     /\ <<"task_failed", w, id>> \in published'
      ]_vars

(***************************************************************************)
(* C14.  A store operation that fails during dequeue or during a terminal  *)
(* transition is retried once the store answers again: a well-formed       *)
(* payload waiting in a queue is eventually dequeued, and a task whose     *)
(* execute_task has ended eventually has its record in the completed or    *)
(* the failed collection.                                                  *)
(***************************************************************************)
C14_StoreFailureIsRetried ==
    \A id \in TaskIds :
        /\ (\E w \in Workers : InQueue(w, Payload("json", id)))
               ~> (\A w \in Workers : ~InQueue(w, Payload("json", id)))
        /\ (\E w \in Workers : Ended(w) /\ task[w].id = id)
               ~> (TerminalRecords(completed, failed, id) # {})

(***************************************************************************)
(* C15.  Whether or not the writes of log_activity reach the store, a task *)
(* ends the same way: the conversation is the initial user message, the    *)
(* backend's responses and the results of the tools they name; what        *)
(* execute_task returns or raises is decided by what the backend calls did *)
(* and by max_iterations alone; and the record mark_task_* writes is in    *)
(* the completed collection exactly when execute_task returned.            *)
(***************************************************************************)
\* What execute_task ends with, told from the backend calls and the tools.
ExpectedEnd(w) ==
    LET n == Len(calls[w])
        content == Last(messages[w]).content
    IN  CASE n = 0 -> <<"raised", BudgetError>>
          [] n > 0 /\ Last(calls[w]) = "raise" ->
                 <<"raised", ExecutionFailed(<<"backend error">>)>>
          [] n > 0 /\ Last(calls[w]) = "end_turn" ->
                 IF n >= max_iterations[w]
                 THEN <<"raised", BudgetError>>
                 ELSE <<"returned", IF ConcatText(content) # <<>>
                                    THEN ConcatText(content) ELSE NoSummary>>
          [] n > 0 /\ Last(calls[w]) = "tool_use" ->
                 IF Last(messages[w]).role = "assistant"
                 THEN <<"raised", ExecutionFailed(RunTools(content).raised)>>
                 ELSE <<"raised", BudgetError>>
          [] OTHER ->
                 <<"raised", ExecutionFailed(
                      <<"'dict' object has no attribute 'stop_reason'">>)>>

C15_LogFailureChangesNoOutcome ==
    /\ [](\A w \in Workers :
            /\ HasTask(w) /\ pc[w] # "dequeued" =>
                   /\ messages[w][1] = UserMessage(task[w])
                   /\ \A i \in 2..(Len(messages[w]) - 1) :
                          messages[w][i].role = "assistant" =>
                              messages[w][i + 1] =
                                  [role |-> "user",
                                   content |-> RunTools(messages[w][i].content).results]
            /\ Ended(w) => <<pc[w], outcome[w]>> = ExpectedEnd(w))
    /\ [][\A w \in Workers :
             MarkStep(w) =>
                 LET record == IF ExpectedEnd(w)[1] = "returned"
                               THEN CompletedTask(task[w], ExpectedEnd(w)[2], w)
                               ELSE FailedTask(task[w], ExpectedEnd(w)[2], w)
                 IN  /\ completed' \subseteq completed \cup {record}
                     /\ failed' \subseteq failed \cup {record}
                     /\ record \in completed' => ExpectedEnd(w)[1] = "returned"
                     /\ record \in failed' => ExpectedEnd(w)[1] = "raised"
         ]_vars

\* A task was recorded as completed although none of the log_activity writes
\* of its worker ever reached the store.
C15_Witness ==
    \E r \in completed :
        /\ logs[r.worker] = <<>>
        /\ logs["all"] = <<>>
        /\ store = "up"

(***************************************************************************)
(* C16.  A task whose daemon process died while it was in the active list  *)
(* stays in the active list: after the restart and whatever the worker     *)
(* does later it is in no queue, it is never the task a daemon executes,   *)
(* and it has no record in the completed or the failed collection.         *)
(***************************************************************************)
C16_StrandedTaskStaysActive ==
    \A id \in stranded :
        /\ \E w \in Workers : InActive(w, Payload("json", id))
        /\ \A w \in Workers : ~InQueue(w, Payload("json", id))
        /\ \A w \in Workers : task[w].id # id
        /\ TerminalRecords(completed, failed, id) = {}

(***************************************************************************)
(* C17.  The variant create_backend selects, over all environments: an     *)
(* explicit HIVE_CLAUDE_BACKEND choice (api, cli, bedrock) wins; otherwise *)
(* a present ANTHROPIC_API_KEY selects the direct-API variant; otherwise a *)
(* managed-cloud signal selects the managed-cloud variant; otherwise the   *)
(* CLI variant is selected.  As claimed, a profile or a region             *)
(* (AWS_PROFILE, AWS_REGION) is a managed-cloud signal, as is the flag     *)
(* CLAUDE_CODE_USE_BEDROCK.                                                *)
(***************************************************************************)
\* The variant the precedence names for environment e, given what counts
\* as a managed-cloud signal.
Precedence(e, signal) ==
    CASE e.HIVE_CLAUDE_BACKEND \in {"api", "cli", "bedrock"} -> e.HIVE_CLAUDE_BACKEND
      [] OTHER -> IF Truthy(e.ANTHROPIC_API_KEY) THEN "api"
                  ELSE IF signal THEN "bedrock"
                  ELSE "cli"

\* The daemon of w was constructed: it has a backend and is in run.
Constructed(w) == pc[w] \notin {"init", "exited"}

ClaimedSignal(e) ==
    \/ Truthy(e.AWS_PROFILE)
    \/ Truthy(e.AWS_REGION)
    \/ e.CLAUDE_CODE_USE_BEDROCK = "1"

C17_BackendPrecedence ==
    \A w \in Workers :
        Constructed(w) => backend[w] = Precedence(env, ClaimedSignal(env))

(***************************************************************************)
(* C17, amended.  The same precedence, where the managed-cloud signal is   *)
(* AWS_PROFILE being set or CLAUDE_CODE_USE_BEDROCK being "1"; AWS_REGION  *)
(* only names the region and selects nothing.  A daemon that exited was    *)
(* refused by the variant the precedence names, not by another one.        *)
(***************************************************************************)
ManagedCloudSignal(e) ==
    Truthy(e.AWS_PROFILE) \/ e.CLAUDE_CODE_USE_BEDROCK = "1"

\* What the constructor of a variant needs from the environment.
Usable(variant, e) ==
    CASE variant = "api" -> Truthy(e.ANTHROPIC_API_KEY) /\ e.anthropic_sdk
      [] variant = "cli" -> e.claude_cli = "ok"
      [] variant = "bedrock" -> e.boto3_sdk

C17_BackendPrecedenceAmended ==
    \A w \in Workers :
        /\ Constructed(w) =>
               backend[w] = Precedence(env, ManagedCloudSignal(env))
        /\ pc[w] = "exited" =>
               ~Usable(Precedence(env, ManagedCloudSignal(env)), env)

\* A key and a profile are both set, nothing is chosen explicitly: the
\* daemon runs on the direct-API variant.
C17_Witness ==
    \E w \in Workers :
        /\ pc[w] = "poll"
        /\ backend[w] = "api"
        /\ ~Truthy(env.HIVE_CLAUDE_BACKEND)
        /\ Truthy(env.AWS_PROFILE)
        /\ env.CLAUDE_CODE_USE_BEDROCK = "1"

(***************************************************************************)
(* C18.  When the construction of the backend fails (explicit api choice   *)
(* without ANTHROPIC_API_KEY, claude CLI missing or returning non-zero,    *)
(* missing SDK library), the daemon never gets into run: it is never past  *)
(* its construction, dequeue_task is never called, and every payload       *)
(* pushed is still in the queue.                                           *)
(***************************************************************************)
ConstructionFails(e) == ~Usable(Precedence(e, ManagedCloudSignal(e)), e)

C18_ConstructionFailureIsFatal ==
    \A w \in daemons :
        ConstructionFails(env) =>
            /\ pc[w] \in {"init", "exited"}
            /\ active[w] = <<>>
            /\ Len(queue[w]) = nextId - 1
            /\ task[w] = NoTask

\* The CLI variant was selected, "claude --version" returned non-zero, the
\* process has exited and the payloads pushed are all waiting.
C18_Witness ==
    \E w \in daemons :
        /\ pc[w] = "exited"
        /\ env.claude_cli = "nonzero"
        /\ Precedence(env, ManagedCloudSignal(env)) = "cli"
        /\ Len(queue[w]) = MaxPayloads
(***************************************************************************)
(* C19: each of the three backend variants returns stop_reason tool_use    *)
(* whenever the model's reply requests at least one tool call, and         *)
(* end_turn when the model produced a final answer with no pending calls.  *)
(* The model's reply is the content the model side handed over: the        *)
(* content of the SDK response or of the response body, and for the CLI    *)
(* variant the content of the last assistant event of the stream.          *)
(***************************************************************************)
Returned(w) == normalized # <<>> /\ normalized[1].kind = "return"
Result(w) == normalized[1].value[2]

RECURSIVE LastAssistantContent(_)
LastAssistantContent(lines) ==
    IF lines = <<>>
    THEN <<>>
    ELSE LET line == lines[Len(lines)] IN
         IF line.kind = "event" /\ Get(line.event, "type", None) = "assistant"
         THEN line.event.message.content
         ELSE LastAssistantContent(SubSeq(lines, 1, Len(lines) - 1))

ModelContent(w) ==
    IF backend[w] = "cli" THEN LastAssistantContent(reply[1].lines)
                          ELSE Get(reply[1], "content", <<>>)

RequestsToolCall(w) == HasToolUse(ModelContent(w))

FinalAnswer(w) ==
    /\ ~RequestsToolCall(w)
    /\ backend[w] # "cli" => reply[1].stop_reason = "end_turn"

C19_StopReasonIsNormalized ==
    \A w \in daemons :
        Returned(w) =>
            /\ RequestsToolCall(w) => Result(w).stop_reason = "tool_use"
            /\ FinalAnswer(w) => Result(w).stop_reason = "end_turn"

(***************************************************************************)
(* C20: the direct-API and managed-cloud variants map the content of the   *)
(* model response directly into the normalized response: every content     *)
(* block keeps its order and type, a text block keeps its text, a tool_use *)
(* block keeps its id, name and input (so the agent loop runs the tool     *)
(* the model named with the input the model gave), and absent usage        *)
(* fields default to empty.                                                *)
(***************************************************************************)
BlockKept(block, from) ==
    /\ block.type = from.type
    /\ from.type = "text" => Get(block, "text", <<>>) = from.text
    /\ from.type = "tool_use" =>
           /\ {"id", "name", "input"} \subseteq DOMAIN block
           /\ block.id = from.id
           /\ block.name = from.name
           /\ block.input = from.input
           /\ ToolCall(block) = ToolCall(from)

C20_ContentIsMappedDirectly ==
    \A w \in daemons :
        backend[w] \in {"api", "bedrock"} /\ Returned(w) =>
            LET content == Result(w).content
                from == Get(reply[1], "content", <<>>) IN
            /\ Len(content) = Len(from)
            /\ \A i \in DOMAIN from : BlockKept(content[i], from[i])
            /\ "usage" \notin DOMAIN reply[1] => Result(w).usage = <<>>

(***************************************************************************)
(* C21: edit fails and leaves the file unchanged when the search string is *)
(* absent, and when it occurs more than once with replace_all false; with  *)
(* replace_all true it replaces every occurrence and reports their number; *)
(* with exactly one occurrence it replaces that occurrence and reports 1.  *)
(* Occurrences are counted as disjoint occurrences: the most places of the *)
(* content, no two overlapping, at which the search string stands.         *)
(***************************************************************************)
Positions(content, old) ==
    {i \in 1..(Len(content) + 1) :
        StartsWith(SubSeq(content, i, Len(content)), old)}

Disjoint(P, old) ==
    \A i, j \in P : i < j => i + Len(old) <= j

Occurrences(content, old) ==
    LET sizes == {Cardinality(P) : P \in {Q \in SUBSET Positions(content, old) :
                                             Disjoint(Q, old)}}
    IN  CHOOSE n \in sizes : \A m \in sizes : m <= n

\* content with the occurrence of old at position i replaced by new
ReplacedAt(content, i, old, new) ==
    SubSeq(content, 1, i - 1) \o new
    \o SubSeq(content, i + Len(old), Len(content))

\* The step is an edit of the existing file "f" with well-typed strings.
EditStep ==
    /\ tool_result = <<>>
    /\ tool_result' # <<>>
    /\ tool_use[1].name = "edit"
    /\ tool_use[1].input.file_path = JStr("f")
    /\ IsStr(tool_use[1].input.old_string)
    /\ IsStr(tool_use[1].input.new_string)

EditFailed == tool_result'[1].out.kind = "ToolExecutionError" /\ files' = files

EditReplaced(n) ==
    /\ tool_result'[1].out.kind = "return"
    /\ tool_result'[1].out.value[2].replaced = n

C21_EditReplacesUniqueOrAll ==
    [][EditStep =>
         LET content == files["f"]
             old == tool_use[1].input.old_string[2]
             new == tool_use[1].input.new_string[2]
             replace_all ==
                 Get(tool_use[1].input, "replace_all", JBool("false"))[2] = "true"
             n == Occurrences(content, old)
         IN  /\ n = 0 => EditFailed
             /\ n > 1 /\ ~replace_all => EditFailed
             /\ n > 1 /\ replace_all =>
                    /\ EditReplaced(n)
                    /\ Len(files'["f"]) = Len(content) + n * Len(new) - n * Len(old)
                    /\ old # <<>> /\ ~Contains(new, <<Head(old)>>) =>
                           ~Contains(files'["f"], old)
             /\ n = 1 =>
                    /\ EditReplaced(1)
                    /\ \E i \in Positions(content, old) :
                           files'["f"] = ReplacedAt(content, i, old, new)
    ]_vars

\* An edit with replace_all on a string that stood twice in the file has
\* replaced both and reported 2.
C21_Witness ==
    /\ tool_result # <<>>
    /\ tool_use[1].name = "edit"
    /\ Get(tool_use[1].input, "replace_all", JBool("false")) = JBool("true")
    /\ tool_result[1].out.kind = "return"
    /\ tool_result[1].out.value[2].replaced = 2
    /\ tool_use[1].input.old_string = JStr(<<"a">>)
    /\ tool_use[1].input.new_string = JStr(<<"b">>)
    /\ files["f"] = <<"b", "b">>

(***************************************************************************)
(* C22: grep opens at most the first 100 files of the glob-selected file   *)
(* set and returns at most 50 matches, whatever the number of matching     *)
(* files and lines; with an invalid regex pattern it fails with a tool     *)
(* execution error before any file is opened.  The arguments are of the    *)
(* types of grep's signature (pattern and path are strings).               *)
(***************************************************************************)
GrepDone ==
    /\ tool_result # <<>>
    /\ tool_use[1].name = "grep"
    /\ IsStr(tool_use[1].input.pattern)
    /\ IsStr(tool_use[1].input.path)

C22_GrepIsCapped ==
    GrepDone =>
        /\ tool_result[1].opened <= GrepMaxFiles
        /\ tool_result[1].out.kind = "return" =>
               /\ Len(tool_result[1].out.value[2]) <= GrepMaxMatches
               /\ \A i \in DOMAIN tool_result[1].out.value[2] :
                      tool_result[1].out.value[2][i].file <= GrepMaxFiles
        /\ tool_use[1].input.pattern[2] \in InvalidPatterns =>
               /\ tool_result[1].out.kind = "ToolExecutionError"
               /\ tool_result[1].opened = 0

\* A grep over the directory of 120 matching files has opened 100 of them
\* and returned 50 matches.
C22_Witness ==
    /\ GrepDone
    /\ tool_use[1].input.path = JStr("many")
    /\ Len(Directories.many) > GrepMaxFiles
    /\ tool_result[1].opened = GrepMaxFiles
    /\ tool_result[1].out.kind = "return"
    /\ Len(tool_result[1].out.value[2]) = GrepMaxMatches

(***************************************************************************)
(* C23: for every tool name, known or unknown, and every tool input the    *)
(* model can supply, execute_tool either returns a value or fails with     *)
(* ToolExecutionError; no other kind of failure reaches the agent loop,    *)
(* and an unknown tool name yields a ToolExecutionError.                   *)
(***************************************************************************)
KnownTools == ToolNames \ {"deploy"}

C23_OnlyToolExecutionErrorIsRaised ==
    tool_result # <<>> =>
        /\ tool_result[1].out.kind \in {"return", "ToolExecutionError"}
        /\ tool_use[1].name \notin KnownTools =>
               tool_result[1].out.kind = "ToolExecutionError"

(***************************************************************************)
(* C24: when no worker identity is configured, each coordination tool      *)
(* that requires one (hive_my_tasks, hive_take_task, hive_task_done,       *)
(* hive_task_failed) fails with a tool execution error before the external *)
(* command is invoked: no queue, active or terminal state is changed.      *)
(***************************************************************************)
WorkerTools ==
    {"hive_my_tasks", "hive_take_task", "hive_task_done", "hive_task_failed"}

C24_NoIdentityFailsFast ==
    [][ /\ tool_result = <<>>
        /\ tool_result' # <<>>
        /\ tool_use[1].name \in WorkerTools
        /\ agent_id = ""
        => /\ tool_result'[1].out.kind = "ToolExecutionError"
           /\ commands' = commands
           /\ UNCHANGED <<queue, active, completed, failed>>
    ]_vars

\* hive_take_task was called without a worker identity while a task was
\* queued: it failed, no command was run and the task is still queued.
C24_Witness ==
    /\ tool_result # <<>>
    /\ tool_use[1].name = "hive_take_task"
    /\ agent_id = ""
    /\ tool_result[1].out.kind = "ToolExecutionError"
    /\ commands = <<>>
    /\ queue["drone-1"] # <<>>

(***************************************************************************)
(* C29: the content of a successful tool_result is the executor's value    *)
(* serialized to text; of a list value only the first 10 items are         *)
(* included and, when the list has more than 10 items, a truncation note   *)
(* giving the number of omitted items is appended; a list of at most 10    *)
(* items is included whole with no note.                                   *)
(***************************************************************************)
ToolReturned ==
    /\ tool_result # <<>>
    /\ tool_result[1].out.kind = "return"

ListReturned == ToolReturned /\ tool_result[1].out.value[1] = "list"

\* The serialized list: its first ten items, and the note past ten items.
ListText(items) ==
    <<"json.dumps", Take(items, ListResultItems)>>
    \o (IF Len(items) > ListResultItems
        THEN <<[more |-> Len(items) - ListResultItems]>> ELSE <<>>)

\* The value serialized to text: JSON for a dict and a list, str otherwise.
Serialized(value) ==
    CASE value[1] = "dict" -> <<"json.dumps", value[2]>>
      [] value[1] = "list" -> ListText(value[2])
      [] OTHER -> <<value[2]>>

ResultContent == tool_result[1].block[1].content

C29_ListResultIsCapped ==
    ToolReturned =>
        /\ tool_result[1].block # <<>>
        /\ "is_error" \notin DOMAIN tool_result[1].block[1]
        /\ Len(ResultContent) = Len(Serialized(tool_result[1].out.value))
        /\ ResultContent = Serialized(tool_result[1].out.value)

(***************************************************************************)
(* C29, amended.  As above for every value but the empty list; the         *)
(* content for an empty list is the text "No results found".               *)
(***************************************************************************)
C29_ListResultIsCappedAmended ==
    ToolReturned =>
        /\ tool_result[1].block # <<>>
        /\ "is_error" \notin DOMAIN tool_result[1].block[1]
        /\ IF ListReturned /\ Len(tool_result[1].out.value[2]) = 0
           THEN ResultContent = <<"No results found">>
           ELSE /\ Len(ResultContent) = Len(Serialized(tool_result[1].out.value))
                /\ ResultContent = Serialized(tool_result[1].out.value)

\* A grep that returned 50 matches: the content holds the first ten and
\* the note that 40 more were left out.
C29_Witness ==
    /\ ListReturned
    /\ Len(tool_result[1].out.value[2]) = GrepMaxMatches
    /\ Len(ResultContent) = 3
    /\ Len(ResultContent[2]) = ListResultItems
    /\ ResultContent[3].more = GrepMaxMatches - ListResultItems

(***************************************************************************)
(* C30: the local-process variant folds the stdout lines of the process    *)
(* into one final text: a non-JSON line is appended as plain text, the     *)
(* text of an assistant event or of a non-empty result event becomes the   *)
(* final text.  With exit status zero it returns exactly one text block    *)
(* holding the stripped final text; with a non-zero exit status it raises  *)
(* RuntimeError carrying the stderr of the process, whatever the lines.    *)
(***************************************************************************)
RECURSIVE FinalText(_, _)
FinalText(lines, text) ==
    IF lines = <<>>
    THEN text
    ELSE LET line == Head(lines) IN
         FinalText(Tail(lines),
                   CASE line.kind = "text" ->
                            text \o Strip(line.text) \o <<"\n">>
                     [] line.kind = "event" /\ line.event.type = "assistant" ->
                            AssistantText(line.event.message.content, text)
                     [] line.kind = "event" /\ line.event.type = "result"
                        /\ line.event.result # <<>> -> line.event.result
                     [] OTHER -> text)

C30_CLIOutputIsFolded ==
    \A w \in daemons :
        backend[w] = "cli" /\ normalized # <<>> =>
            IF reply[1].returncode = 0
            THEN /\ normalized[1].kind = "return"
                 /\ Len(Result(w).content) = 1
                 /\ Result(w).content[1] =
                        TextBlock(Strip(FinalText(reply[1].lines, <<>>)))
            ELSE normalized[1] =
                     Raise("RuntimeError",
                           <<"Claude CLI failed: ">> \o reply[1].stderr)

(***************************************************************************)
(* C26: every significant step of a task's execution is written to the     *)
(* worker's stream and to the global stream: one task_start when the       *)
(* execution begins; in every turn, tool_use turns included, one           *)
(* claude_response for each text block whose text is not blank, and one    *)
(* tool_call for each executed tool followed by its tool_result or         *)
(* tool_error; task_complete at the end of an end_turn turn; task_failed   *)
(* when the execution fails.                                               *)
(***************************************************************************)
\* The entries one turn owes to the streams, in the order of its blocks.
RECURSIVE TurnEvents(_)
TurnEvents(content) ==
    IF content = <<>>
    THEN <<>>
    ELSE LET block == Head(content) IN
         CASE block.type = "text" ->
                  (IF IsBlank(block.text) THEN <<>> ELSE <<"claude_response">>)
                  \o TurnEvents(Tail(content))
           [] block.type = "tool_use" ->
                  LET out == ExecuteTool(ToolCall(block).name,
                                         ToolCall(block).input) IN
                  CASE out.kind = "return" ->
                           <<"tool_call", "tool_result">>
                           \o TurnEvents(Tail(content))
                    [] out.kind = "ToolExecutionError" ->
                           <<"tool_call", "tool_error">>
                           \o TurnEvents(Tail(content))
                    [] OTHER -> <<"tool_call">>
           [] OTHER -> TurnEvents(Tail(content))

\* Daemon w went through one pass of the while loop in this step.
TurnStep(w) == Len(calls'[w]) = Len(calls[w]) + 1
TurnStopReason(w) == calls'[w][Len(calls'[w])]
TurnContent(w) == messages'[w][Len(messages[w]) + 1].content

\* The entries the step of daemon w owes to the streams.
StepEvents(w) ==
    CASE pc[w] = "dequeued" /\ pc'[w] = "loop" -> <<"task_start">>
      [] TurnStep(w) /\ TurnStopReason(w) = "raise" -> <<"task_failed">>
      [] TurnStep(w) /\ TurnStopReason(w) # "raise" ->
             TurnEvents(TurnContent(w))
             \o (IF TurnStopReason(w) = "end_turn" THEN <<"task_complete">>
                                                   ELSE <<>>)
             \o (IF pc'[w] = "raised" THEN <<"task_failed">> ELSE <<>>)
      [] ~TurnStep(w) /\ pc[w] \in {"loop", "check"} /\ pc'[w] = "raised" ->
             <<"task_failed">>
      [] OTHER -> <<>>

C26_EveryStepIsLogged ==
    [][\A w \in daemons :
           pc'[w] # pc[w] \/ TurnStep(w) =>
               logs' = LogActivity(logs, w, task[w].id, StepEvents(w))]_vars

(***************************************************************************)
(* C27: within one tool_use turn the tools run one after another in the    *)
(* order of their tool_use blocks: the blocks are handed to the executor   *)
(* in block order, the tool_call entry of a block is written only after    *)
(* the tool_result or tool_error entry of the block before it, the         *)
(* tool_results are recorded in block order, and the loop goes on to the   *)
(* next backend call only when every tool_use block of the turn has been   *)
(* executed.                                                               *)
(***************************************************************************)
\* The entries of the first n tools of uses, run one after another; the
\* nth one has no result entry when it left the loop by an exception.
RECURSIVE OneAfterAnother(_, _, _)
OneAfterAnother(uses, n, crashed) ==
    IF n = 0
    THEN <<>>
    ELSE OneAfterAnother(uses, n - 1, FALSE)
         \o <<"tool_call">>
         \o (IF crashed THEN <<>>
             ELSE IF Fails(uses[n]) THEN <<"tool_error">>
                                    ELSE <<"tool_result">>)

C27_ToolsRunInBlockOrder ==
    [][\A w \in daemons :
           TurnStep(w) /\ TurnStopReason(w) = "tool_use" =>
               LET uses == ToolUses(TurnContent(w))
                   n == Len(toolCalls'[w]) - Len(toolCalls[w])
                   crashed == pc'[w] = "raised"
               IN  /\ n <= Len(uses)
                   /\ \A k \in 1..n :
                          toolCalls'[w][Len(toolCalls[w]) + k] = uses[k].id
                   /\ logs' = LogActivity(logs, w, task[w].id,
                                  OneAfterAnother(uses, n, crashed)
                                  \o (IF crashed THEN <<"task_failed">>
                                                 ELSE <<>>))
                   /\ ~crashed =>
                          /\ pc'[w] = "loop"
                          /\ n = Len(uses)
                          /\ Len(messages'[w]) = Len(messages[w]) + 2
                          /\ LET results == Last(messages'[w]).content IN
                             /\ Len(results) = n
                             /\ \A k \in 1..n :
                                    results[k].tool_use_id = uses[k].id
                   /\ crashed => Len(messages'[w]) = Len(messages[w]) + 1]_vars

\* A turn with two tool_use blocks has run both, the first one failing.
C27_Witness ==
    \E w \in daemons :
        /\ pc[w] = "loop"
        /\ calls[w] = <<"tool_use">>
        /\ toolCalls[w] = <<"tu1", "tu2">>
        /\ Len(Last(messages[w]).content) = 2
        /\ "is_error" \in DOMAIN Last(messages[w]).content[1]

(***************************************************************************)
(* C28: the tasks of one worker are processed first in, first out.  The    *)
(* clients number their payloads in the order in which they push them, so  *)
(* the oldest payload of a queue is the one with the smallest number.      *)
(* Each dequeue takes the oldest payload of the worker's queue; payloads   *)
(* enter the active list in the order they were pushed; and a task gets    *)
(* its terminal record after every task of the same worker pushed before   *)
(* it that gets one.                                                       *)
(***************************************************************************)
\* When the clients pushed payload p: their counter at that time.
PushedAt(p) == p[2]

Oldest(list) ==
    CHOOSE p \in Range(list) : \A q \in Range(list) : PushedAt(p) <= PushedAt(q)

TerminalOf(w) == {r \in completed \cup failed : r.worker = w}

C28_QueueIsFIFO ==
    /\ [](\A w \in Workers :
             /\ \A i, j \in DOMAIN active[w] :
                    i < j => PushedAt(active[w][i]) > PushedAt(active[w][j])
             /\ \A p \in Range(active[w]), q \in Range(queue[w]) :
                    PushedAt(p) < PushedAt(q))
    /\ [][\A w \in Workers :
             /\ Len(queue'[w]) < Len(queue[w]) =>
                    /\ Len(active'[w]) = Len(active[w]) + 1
                    /\ Head(active'[w]) = Oldest(queue[w])
                    /\ Range(queue'[w]) = Range(queue[w]) \ {Oldest(queue[w])}
             /\ \A r \in (completed' \cup failed') \ (completed \cup failed) :
                    r.worker = w => \A r0 \in TerminalOf(w) : r0.id < r.id
         ]_vars

\* The older of two payloads is being executed while the newer one waits.
C28_Witness ==
    \E w \in daemons :
        /\ pc[w] = "loop"
        /\ iteration[w] >= 1
        /\ queue[w] # <<>>
        /\ PushedAt(TaskPayload(task[w])) < PushedAt(Tail_(queue[w]))

(***************************************************************************)
(* C25: an interrupt signal takes effect only at the poll point between    *)
(* tasks.  A daemon that stops on an interrupt stops from the poll point   *)
(* (the poll or the sleep after an empty poll) and holds no task: a task   *)
(* that was executing when the signal arrived has gone through its         *)
(* terminal transition before the worker shuts down.                       *)
(***************************************************************************)
C25_InterruptWaitsForPollPoint ==
    [][\A w \in daemons :
           pc'[w] = "stopped" /\ pc[w] # "stopped" =>
               /\ pc[w] \in {"poll", "sleep"}
               /\ task[w] = NoTask]_vars

(***************************************************************************)
(* C31: the advertised tool definitions and the dispatch of execute_tool   *)
(* are in lockstep.  A tool_use block naming an advertised tool is never   *)
(* answered with "Unknown tool"; a block whose name is not advertised is   *)
(* (so every name execute_tool handles is advertised); the names with      *)
(* input keys read by execute_tool are the advertised names, and every key *)
(* it reads for a tool is a property declared in that tool's schema.       *)
(***************************************************************************)
UnknownTool == Raise("ToolExecutionError", "Unknown tool")

C31_DefinitionsMatchDispatch ==
    tool_result # <<>> =>
        LET name == ToolCall(tool_use[1]).name IN
        /\ DOMAIN InputKeys = DOMAIN TOOL_DEFINITIONS
        /\ name \in DOMAIN TOOL_DEFINITIONS <=> tool_result[1].out # UnknownTool
        /\ name \in DOMAIN TOOL_DEFINITIONS =>
               InputKeys[name] \subseteq TOOL_DEFINITIONS[name]

\* An advertised tool was dispatched to its handler with an input key read.
C31_Witness ==
    /\ tool_result # <<>>
    /\ ToolCall(tool_use[1]).name = "grep"
    /\ "glob" \in DOMAIN ToolCall(tool_use[1]).input
    /\ tool_result[1].out # UnknownTool

(***************************************************************************)
(* C32: the dequeue, the completion and the failure of worker w read and   *)
(* change only w's own queue and active list.  In a step in which w        *)
(* dequeues or marks a task, the queue and the active list of every other  *)
(* worker are unchanged, the payload moved comes from w's own queue, the   *)
(* only entry removed was in w's own active list, and the terminal records *)
(* of the other workers stay in the shared collections.                    *)
(***************************************************************************)
DequeueStep(w) == pc[w] = "poll" /\ DaemonStep(w)

C32_ListsAreScopedPerWorker ==
    [][\A w \in Workers :
           DequeueStep(w) \/ MarkStep(w) =>
               /\ \A v \in Workers \ {w} :
                      /\ queue'[v] = queue[v]
                      /\ active'[v] = active[v]
               /\ DequeueStep(w) =>
                      Range(active'[w]) \subseteq
                          Range(active[w]) \cup Range(queue[w])
               /\ MarkStep(w) =>
                      /\ queue'[w] = queue[w]
                      /\ Range(active'[w]) \subseteq Range(active[w])
               /\ completed \subseteq completed'
               /\ failed \subseteq failed'
               /\ \A r \in (completed' \cup failed') \ (completed \cup failed) :
                      r.worker = w]_vars

\* One worker has recorded its task while the other one holds a task.
C32_Witness ==
    \E w, v \in daemons :
        /\ w # v
        /\ pc[w] = "poll"
        /\ \E r \in completed \cup failed : r.worker = w
        /\ pc[v] = "loop"
        /\ active[v] # <<>>
        /\ iteration[v] >= 1

(***************************************************************************)
(* C33: the entry mark_task_completed / mark_task_failed removes from the  *)
(* worker's active list is the entry of the task it is called for: the     *)
(* list afterwards is the list before without that task's payload, every   *)
(* other entry kept, whatever the list held (payloads that did not parse,  *)
(* entries of a previous run).                                             *)
(***************************************************************************)
\* list without its ith entry
Without(list, i) == SubSeq(list, 1, i - 1) \o SubSeq(list, i + 1, Len(list))

C33_MarkRemovesOwnEntry ==
    [][\A w \in Workers :
           MarkStep(w) =>
               \E i \in DOMAIN active[w] :
                   /\ active[w][i] = TaskPayload(task[w])
                   /\ active'[w] = Without(active[w], i)]_vars

(***************************************************************************)
(* C34: for every executed task exactly one terminal activity event is     *)
(* logged, task_complete or task_failed and never both, and it agrees with *)
(* the collection the task is recorded in.  When run marks the task, the   *)
(* worker's stream holds exactly one terminal entry of that task:          *)
(* task_complete if the task is recorded as completed, task_failed if it   *)
(* is recorded as failed.                                                  *)
(***************************************************************************)
TerminalEvents == {"task_complete", "task_failed"}

\* The positions of the terminal entries of task id in a stream.
TerminalEntries(stream, id) ==
    {i \in DOMAIN stream :
        stream[i].task_id = id /\ stream[i].event \in TerminalEvents}

C34_OneTerminalEventPerTask ==
    [][\A w \in Workers :
           MarkStep(w) =>
               LET logged == TerminalEntries(logs[w], task[w].id) IN
               /\ Cardinality(logged) = 1
               /\ \A i \in logged :
                      /\ logs[w][i].event = "task_complete" <=>
                             \E r \in completed' \ completed : r.id = task[w].id
                      /\ logs[w][i].event = "task_failed" <=>
                             \E r \in failed' \ failed : r.id = task[w].id
      ]_vars

(***************************************************************************)
(* C35: no task is lost, wherever store operations fail.  In every state a *)
(* well-formed payload the clients pushed is in its worker's queue (not    *)
(* yet dequeued), or in a worker's active list, or has a record in the     *)
(* completed or the failed collection.                                     *)
(***************************************************************************)
Dequeued(id) ==
    /\ pushed[id] = "json"
    /\ \A w \in Workers : ~InQueue(w, Payload("json", id))

C35_NoTaskIsLost ==
    \A id \in TaskIds :
        Dequeued(id) =>
            \/ \E w \in Workers : InActive(w, Payload("json", id))
            \/ TerminalRecords(completed, failed, id) # {}

(***************************************************************************)
(* C36: each dequeued task gets at most one terminal record.  Once         *)
(* execute_task has ended, the next step of the daemon is one call of      *)
(* mark_task_completed (it returned) or of mark_task_failed (it raised),   *)
(* which adds one record of that task to the matching collection and none  *)
(* to the other; records are added in no other step; and in no state does  *)
(* a task have more than one record, or one in each collection.            *)
(***************************************************************************)
RecordsAdded == (completed' \cup failed') \ (completed \cup failed)

C37_ExecuteTaskIsBounded ==
    /\ [](\A w \in Workers :
             /\ Len(calls[w]) <= max_iterations[w]
             /\ iteration[w] <= max_iterations[w]
             /\ Len(calls[w]) = iteration[w] \/ ~HasTask(w))
    /\ [][\A w \in Workers :
             toolCalls'[w] # toolCalls[w] /\ toolCalls'[w] # <<>> =>
                 /\ TurnStep(w)
                 /\ TurnStopReason(w) = "tool_use"]_vars
    /\ \A w \in Workers : (pc[w] = "dequeued") ~> Ended(w)

\* The cap was reached by tool_use passes alone, each running a tool.
C37_Witness ==
    \E w \in daemons :
        /\ pc[w] = "raised"
        /\ max_iterations[w] = MaxIterationsCap
        /\ Len(calls[w]) = MaxIterationsCap
        /\ Len(toolCalls[w]) >= MaxIterationsCap
        /\ outcome[w] = BudgetError

(***************************************************************************)
(* C38: throughout a task the conversation alternates roles, starting with *)
(* a user message.  Every backend call is made with a conversation whose   *)
(* last message has role user; every backend response is appended as       *)
(* exactly one assistant message; every tool_use turn appends, after it,   *)
(* exactly one user message, also when the response holds no tool_use      *)
(* block; a turn with another stop reason appends no user message.         *)
(***************************************************************************)
RoleAt(i) == IF i % 2 = 1 THEN "user" ELSE "assistant"

C38_ConversationAlternates ==
    /\ [](\A w \in Workers :
             \A i \in DOMAIN messages[w] : messages[w][i].role = RoleAt(i))
    /\ [][\A w \in Workers :
             TurnStep(w) =>
                 /\ messages[w] # <<>>
                 /\ Last(messages[w]).role = "user"
                 /\ TurnStopReason(w) = "raise" => messages'[w] = messages[w]
                 /\ TurnStopReason(w) # "raise" =>
                        /\ SubSeq(messages'[w], 1, Len(messages[w])) = messages[w]
                        /\ messages'[w][Len(messages[w]) + 1].role = "assistant"
                        /\ IF TurnStopReason(w) = "tool_use"
                           THEN /\ Len(messages'[w]) = Len(messages[w]) + 2
                                /\ Last(messages'[w]).role = "user"
                           ELSE Len(messages'[w]) = Len(messages[w]) + 1
      ]_vars

(***************************************************************************)
(* C39: while the worker keeps running, every backend call and tool        *)
(* execution returns and the store stays reachable, every well-formed task *)
(* placed in a worker's queue is eventually recorded in the completed or   *)
(* the failed collection and is then in neither the queue nor the active   *)
(* list of the worker.                                                     *)
(***************************************************************************)
Settled(w, id) ==
    /\ TerminalRecords(completed, failed, id) # {}
    /\ ~InQueue(w, Payload("json", id))
    /\ ~InActive(w, Payload("json", id))

C39_QueuedTaskIsEventuallySettled ==
    \A w \in Workers, id \in TaskIds :
        InQueue(w, Payload("json", id)) ~> Settled(w, id)

====
